---- MODULE Spec2Model ----
(***************************************************************************)
(* A model of the ignite-rust-client: the typed binary codec               *)
(* (src/src/binary.rs and src/src/binary/mod.rs), the framed transport and *)
(* dispatcher (src/src/network.rs), the cache operations                   *)
(* (src/src/cache.rs) and the client facade (src/src/lib.rs).              *)
(*                                                                         *)
(* Bytes are integers 0..255 and buffers are sequences of bytes.  The      *)
(* model checker's integers are 32 bits wide, so a 64-bit quantity is kept *)
(* as four 16-bit limbs, most significant first, and a 32-bit float        *)
(* pattern as two.                                                         *)
(***************************************************************************)
EXTENDS Integers, Sequences, FiniteSets, TLC

\* ------------------------------------------------------------------ bounds

\* Operations issued through one Client after a successful start.
MaxOps == 3

\* ------------------------------------------------------- program constants

NULL_FLAG == 101
PROTO_VER == 1
VERSION_MAJOR == 1
VERSION_MINOR == 1
VERSION_PATCH == 0

\* --------------------------------------------------------- buffer helpers

Take(s, n) == SubSeq(s, 1, n)
Drop(s, n) == SubSeq(s, n + 1, Len(s))

\* The byte of a two's-complement integer at position k (0 = least significant).
ByteAt(v, k) ==
    CASE k = 0 -> v % 256
      [] k = 1 -> (v \div 256) % 256
      [] k = 2 -> (v \div 65536) % 256
      [] k = 3 -> (v \div 16777216) % 256

Signed8(b) == IF b >= 128 THEN b - 256 ELSE b

\* bytes::BufMut writers.
put_i8(v) == <<ByteAt(v, 0)>>
put_u8(v) == <<ByteAt(v, 0)>>
put_i16_le(v) == <<ByteAt(v, 0), ByteAt(v, 1)>>
put_u16(v) == <<ByteAt(v, 1), ByteAt(v, 0)>>
put_i32_le(v) == <<ByteAt(v, 0), ByteAt(v, 1), ByteAt(v, 2), ByteAt(v, 3)>>
\* w is a 64-bit word as four 16-bit limbs, most significant first.
put_i64_le(w) ==
    <<w[4] % 256, w[4] \div 256, w[3] % 256, w[3] \div 256,
      w[2] % 256, w[2] \div 256, w[1] % 256, w[1] \div 256>>
\* w is a 32-bit pattern as two 16-bit limbs, most significant first.
put_f32_le(w) == <<w[2] % 256, w[2] \div 256, w[1] % 256, w[1] \div 256>>

\* bytes::Buf readers; each needs that many bytes to remain and panics otherwise.
get_i8(s) == Signed8(s[1])
get_u8(s) == s[1]
get_i16_le(s) == s[1] + 256 * Signed8(s[2])
get_u16_le(s) == s[1] + 256 * s[2]
get_i32_le(s) == s[1] + 256 * s[2] + 65536 * s[3] + 16777216 * Signed8(s[4])
get_i64_le(s) ==
    <<s[7] + 256 * s[8], s[5] + 256 * s[6], s[3] + 256 * s[4], s[1] + 256 * s[2]>>
get_f32_le(s) == <<s[3] + 256 * s[4], s[1] + 256 * s[2]>>

\* ------------------------------------------------------------------ UTF-8
\* A String is its sequence of Unicode scalar values.

Utf8OfChar(cp) ==
    CASE cp < 128 -> <<cp>>
      [] cp >= 128 /\ cp < 2048 -> <<192 + (cp \div 64), 128 + (cp % 64)>>
      [] cp >= 2048 /\ cp < 65536 ->
            <<224 + (cp \div 4096), 128 + ((cp \div 64) % 64), 128 + (cp % 64)>>
      [] OTHER ->
            <<240 + (cp \div 262144), 128 + ((cp \div 4096) % 64),
              128 + ((cp \div 64) % 64), 128 + (cp % 64)>>

\* String::as_bytes
RECURSIVE as_bytes(_)
as_bytes(str) == IF str = <<>> THEN <<>> ELSE Utf8OfChar(Head(str)) \o as_bytes(Tail(str))

IsCont(b) == b >= 128 /\ b <= 191

\* The length of the well-formed UTF-8 sequence that starts s, 0 when there is none.
Utf8SeqLen(s) ==
    LET b == s[1]
        c(i) == Len(s) >= i /\ IsCont(s[i])
    IN  CASE b < 128 -> 1
          [] b >= 194 /\ b <= 223 -> IF c(2) THEN 2 ELSE 0
          [] b = 224 -> IF Len(s) >= 3 /\ s[2] >= 160 /\ s[2] <= 191 /\ c(3) THEN 3 ELSE 0
          [] (b >= 225 /\ b <= 236) \/ b = 238 \/ b = 239 -> IF c(2) /\ c(3) THEN 3 ELSE 0
          [] b = 237 -> IF Len(s) >= 3 /\ s[2] >= 128 /\ s[2] <= 159 /\ c(3) THEN 3 ELSE 0
          [] b = 240 ->
                IF Len(s) >= 4 /\ s[2] >= 144 /\ s[2] <= 191 /\ c(3) /\ c(4) THEN 4 ELSE 0
          [] b >= 241 /\ b <= 243 -> IF c(2) /\ c(3) /\ c(4) THEN 4 ELSE 0
          [] b = 244 ->
                IF Len(s) >= 4 /\ s[2] >= 128 /\ s[2] <= 143 /\ c(3) /\ c(4) THEN 4 ELSE 0
          [] OTHER -> 0

CharOfUtf8(s, n) ==
    CASE n = 1 -> s[1]
      [] n = 2 -> (s[1] - 192) * 64 + (s[2] - 128)
      [] n = 3 -> (s[1] - 224) * 4096 + (s[2] - 128) * 64 + (s[3] - 128)
      [] n = 4 -> (s[1] - 240) * 262144 + (s[2] - 128) * 4096 + (s[3] - 128) * 64 + (s[4] - 128)

\* String::from_utf8: [ok, str]; ok is FALSE for bytes that are not UTF-8.
RECURSIVE from_utf8(_)
from_utf8(s) ==
    IF s = <<>> THEN [ok |-> TRUE, str |-> <<>>]
    ELSE LET n == Utf8SeqLen(s)
         IN  IF n = 0 THEN [ok |-> FALSE, str |-> <<>>]
             ELSE LET r == from_utf8(Drop(s, n))
                  IN  [ok |-> r.ok, str |-> IF r.ok THEN <<CharOfUtf8(s, n)>> \o r.str ELSE <<>>]

\* char::len_utf16
len_utf16(cp) == IF cp < 65536 THEN 1 ELSE 2

\* std::char::from_u32 on a 16-bit unit: no char for a surrogate.
IsScalar16(u) == ~(u >= 55296 /\ u <= 57343)

\* ------------------------------------------------------- values, errors
\* A Value is [t |-> variant, v |-> payload]; Option<Value>::None is Null.

Val(t, v) == [t |-> t, v |-> v]
Null == [t |-> "Null", v |-> 0]
Unit == [t |-> "Unit", v |-> 0]
\* Values are compared variant first: payloads of different variants never are.
IsNull(x) == x.t = "Null"
RECURSIVE SameValue(_, _)
SameValue(a, b) ==
    /\ a.t = b.t
    /\ CASE a.t \in {"Vec", "LinkedList", "HashSet", "LinkedHashSet"} ->
                /\ Len(a.v) = Len(b.v)
                /\ \A i \in 1..Len(a.v) : SameValue(a.v[i], b.v[i])
          [] a.t \in {"HashMap", "LinkedHashMap", "Entries"} ->
                /\ Len(a.v) = Len(b.v)
                /\ \A i \in 1..Len(a.v) :
                        SameValue(a.v[i][1], b.v[i][1]) /\ SameValue(a.v[i][2], b.v[i][2])
          [] OTHER -> a.v = b.v

\* error::Error.  kind is the source's ErrorKind variant ("Serde" is the codec
\* kind binary.rs raises, "Encoding" the one error.rs gives a FromUtf8Error,
\* "Ignite" the server status); code is Ignite's status; ver is Handshake's
\* (server, client) versions; msg is the message when it comes off the wire.
Error_new(kind, code, msg, ver) == [kind |-> kind, code |-> code, msg |-> msg, ver |-> ver]
Serde == Error_new("Serde", 0, <<>>, <<>>)
\* A conversion that files an io::Error under the codec's kind.
FromIoError_as_encoding == Error_new("Encoding", 0, <<>>, <<>>)
\* From<std::io::Error>
FromIoError == Error_new("Network", 0, <<>>, <<>>)
\* From<std::string::FromUtf8Error>
FromUtf8Error == Error_new("Encoding", 0, <<>>, <<>>)
NoErr == Error_new("none", 0, <<>>, <<>>)

\* The outcome of a read on a cursor: k is "ok" (v read, rest left), "err"
\* (Err(err) returned, rest left) or "panic" (the thread unwinds).
RdOk(v, rest) == [k |-> "ok", v |-> v, rest |-> rest, err |-> NoErr]
RdErr(e, rest) == [k |-> "err", v |-> Null, rest |-> rest, err |-> e]
RdPanic == [k |-> "panic", v |-> Null, rest |-> <<>>, err |-> NoErr]

\* The outcome of a write into a request buffer: the bytes appended, and the
\* error when the writer returned one.
WrOk(bytes) == [ok |-> TRUE, bytes |-> bytes, err |-> NoErr]
WrErr(bytes, e) == [ok |-> FALSE, bytes |-> bytes, err |-> e]
\* The writer panicked: no error is returned, the call unwinds.
WrPanic == WrErr(<<>>, Error_new("panic", 0, <<>>, <<>>))

\* A write, then write w unless the first returned its error (the ? operator):
\* the bytes of both stay in the buffer.
Then(b, w) ==
    IF b.ok THEN [ok |-> w.ok, bytes |-> b.bytes \o w.bytes, err |-> w.err] ELSE b

\* ------------------------------------------------------------------ Uuid
\* (w << 8) | b on a 64-bit word of four 16-bit limbs.
Shl8Or(w, b) ==
    <<(w[1] % 256) * 256 + (w[2] \div 256), (w[2] % 256) * 256 + (w[3] \div 256),
      (w[3] % 256) * 256 + (w[4] \div 256), (w[4] % 256) * 256 + b>>

\* w >> 8 on a signed 64-bit word: the sign fills the top byte.
Shr8(w) ==
    <<(IF w[1] >= 32768 THEN 65280 ELSE 0) + (w[1] \div 256),
      (w[1] % 256) * 256 + (w[2] \div 256),
      (w[2] % 256) * 256 + (w[3] \div 256), (w[3] % 256) * 256 + (w[4] \div 256)>>

RECURSIVE PackWord(_, _, _, _)
\* for i in from .. to { w = (w << 8) | arr[i] }, arr indexed from 0.
PackWord(w, arr, from, to) ==
    IF from >= to THEN w ELSE PackWord(Shl8Or(w, arr[from + 1]), arr, from + 1, to)

Zero64 == <<0, 0, 0, 0>>

\* The two words with the last 8 bytes taken first.
UuidWords_lsb_first(arr) == <<PackWord(Zero64, arr, 8, 16), PackWord(Zero64, arr, 0, 8)>>

\* The msb and lsb words of Uuid's write.
UuidWords(arr) == <<PackWord(Zero64, arr, 0, 8), PackWord(Zero64, arr, 8, 16)>>

RECURSIVE UnpackWord(_, _, _, _)
\* for i in from .. to { arr[15 - i] = w & 0xFF; w = w >> 8 }, arr indexed from 0.
UnpackWord(arr, w, from, to) ==
    IF from >= to THEN arr
    ELSE UnpackWord([arr EXCEPT ![16 - from] = w[4] % 256], Shr8(w), from + 1, to)

\* Uuid's read: the 16 raw bytes from the two words.
UuidBytes(msb, lsb) ==
    UnpackWord(UnpackWord([i \in 1..16 |-> 0], lsb, 0, 8), msb, 8, 16)

\* ------------------------------------------- codec of src/src/binary.rs

Scalars == <<"I8", "I16", "I32", "I64", "F32", "F64", "Char", "Bool", "String", "Uuid">>

\* A type-code table whose entries are one too high.
TYPE_CODE_next(t) == 1 + (CHOOSE c \in 1..10 : Scalars[c] = t)

\* Read::TYPE_CODE
TYPE_CODE(t) == CHOOSE c \in 1..10 : Scalars[c] = t

\* BinaryWrite for char
BinaryWrite_char(cp) ==
    IF len_utf16(cp) = 1 THEN WrOk(put_i8(7) \o put_u16(cp))
    ELSE WrErr(<<>>, Serde)

\* BinaryWrite for String
BinaryWrite_String(str) ==
    LET arr == as_bytes(str) IN WrOk(put_i8(9) \o put_i32_le(Len(arr)) \o arr)

\* BinaryWrite for Uuid
BinaryWrite_Uuid(arr) ==
    LET w == UuidWords(arr) IN WrOk(put_i8(10) \o put_i64_le(w[1]) \o put_i64_le(w[2]))

\* BinaryWrite for Value and for the scalars it dispatches to.
BinaryWrite(val) ==
    CASE val.t = "I8" -> WrOk(put_i8(1) \o put_i8(val.v))
      [] val.t = "I16" -> WrOk(put_i8(2) \o put_i16_le(val.v))
      [] val.t = "I32" -> WrOk(put_i8(3) \o put_i32_le(val.v))
      [] val.t = "I64" -> WrOk(put_i8(4) \o put_i64_le(val.v))
      [] val.t = "F32" -> WrOk(put_i8(5) \o put_f32_le(val.v))
      [] val.t = "F64" -> WrOk(put_i8(6) \o put_i64_le(val.v))
      [] val.t = "Char" -> BinaryWrite_char(val.v)
      [] val.t = "Bool" -> WrOk(put_i8(8) \o put_u8(IF val.v THEN 1 ELSE 0))
      [] val.t = "String" -> BinaryWrite_String(val.v)
      [] val.t = "Uuid" -> BinaryWrite_Uuid(val.v)

\* BinaryWrite for Option<T>
BinaryWrite_Option(opt) ==
    IF IsNull(opt) THEN WrOk(put_i8(NULL_FLAG)) ELSE BinaryWrite(opt)

\* RawRead for String
RawRead_String(s) ==
    IF Len(s) < 4 THEN RdPanic
    ELSE LET len == get_i32_le(s)
         IN  IF len < 0 \/ len > Len(s) - 4 THEN RdPanic
             ELSE LET r == from_utf8(SubSeq(s, 5, 4 + len))
                  IN  IF r.ok THEN RdOk(Val("String", r.str), Drop(s, 4 + len))
                      ELSE RdErr(FromUtf8Error, Drop(s, 4 + len))

\* RawRead for char
RawRead_char(s) ==
    IF Len(s) < 2 THEN RdPanic
    ELSE LET value == get_u16_le(s)
         IN  IF IsScalar16(value) THEN RdOk(Val("Char", value), Drop(s, 2))
             ELSE RdErr(Serde, Drop(s, 2))

\* RawRead for Uuid
RawRead_Uuid(s) ==
    IF Len(s) < 16 THEN RdPanic
    ELSE RdOk(Val("Uuid", UuidBytes(get_i64_le(s), get_i64_le(Drop(s, 8)))), Drop(s, 16))

\* RawRead for the scalar named t.
RawRead(t, s) ==
    LET fixed(n, v) == IF Len(s) < n THEN RdPanic ELSE RdOk(Val(t, v), Drop(s, n))
    IN  CASE t = "I8" -> fixed(1, get_i8(s))
          [] t = "I16" -> fixed(2, get_i16_le(s))
          [] t = "I32" -> fixed(4, get_i32_le(s))
          [] t = "I64" -> fixed(8, get_i64_le(s))
          [] t = "F32" -> fixed(4, get_f32_le(s))
          [] t = "F64" -> fixed(8, get_i64_le(s))
          [] t = "Char" -> RawRead_char(s)
          [] t = "Bool" -> fixed(1, get_u8(s) # 0)
          [] t = "String" -> RawRead_String(s)
          [] t = "Uuid" -> RawRead_Uuid(s)

\* Value::read: Option<Value> off the cursor.
Value_read(s) ==
    IF Len(s) < 1 THEN RdPanic
    ELSE LET type_code == get_i8(s)
             rest == Drop(s, 1)
         IN  CASE type_code = NULL_FLAG -> RdOk(Null, rest)
               [] type_code >= 1 /\ type_code <= 10 -> RawRead(Scalars[type_code], rest)
               [] OTHER -> RdErr(Error_new("Ignite", 0, <<>>, <<>>), rest)

\* read<T>: the type code, then the raw value.
read(t, s) ==
    IF Len(s) < 1 THEN RdPanic
    ELSE LET type_code == get_i8(s)
         IN  IF type_code = TYPE_CODE(t) THEN RawRead(t, Drop(s, 1))
             ELSE RdErr(Serde, Drop(s, 1))

\* read_optional<T>: None for the null flag, otherwise as read<T>.
read_optional(t, s) ==
    IF Len(s) < 1 THEN RdPanic
    ELSE LET type_code == get_i8(s)
         IN  CASE type_code = TYPE_CODE(t) -> RawRead(t, Drop(s, 1))
               [] type_code # TYPE_CODE(t) /\ type_code = NULL_FLAG -> RdOk(Null, Drop(s, 1))
               [] OTHER -> RdErr(Serde, Drop(s, 1))

\* ------------------------------------- codec of src/src/binary/mod.rs
\* Payloads: I8, I16, I32 and Char an integer; I64 and F64 four limbs, F32
\* two; Bool a boolean; String its scalar values; Uuid its 16 bytes;
\* Timestamp [secs, nanos], secs four limbs; an array the sequence of its
\* elements' payloads; a collection the sequence of its Values; a map the
\* sequence of its <<key, value>> pairs; BinaryObject its four fields.

\* w * m + c on a 64-bit word, wrapping; 0 <= c, m < 2^15.
MulAdd64(w, m, c) ==
    LET t0 == m * w[4] + (c % 65536)
        t1 == m * w[3] + (c \div 65536) + (t0 \div 65536)
        t2 == m * w[2] + (t1 \div 65536)
        t3 == m * w[1] + (t2 \div 65536)
    IN  <<t3 % 65536, t2 % 65536, t1 % 65536, t0 % 65536>>

\* NaiveDateTime::timestamp_millis
timestamp_millis(dt) == MulAdd64(dt.secs, 1000, dt.nanos \div 1000000)

\* NaiveDateTime::from_timestamp takes whole seconds within chrono's range of
\* about 262000 years either side of 1970 and panics outside it.
SecsInRange(w) == (w[1] = 0 /\ w[2] < 1900) \/ (w[1] = 65535 /\ w[2] > 63600)

Arrays ==
    <<"I8Vec", "I16Vec", "I32Vec", "I64Vec", "F32Vec", "F64Vec", "CharVec", "BoolVec",
      "StringVec", "UuidVec">>
ArrayNames == {Arrays[i] : i \in 1..10} \cup {"TimestampVec"}
Collections == <<"Vec", "LinkedList", "HashSet", "LinkedHashSet">>
Maps == <<"HashMap", "LinkedHashMap">>

\* The element type of an array variant.
ElemOf(t) == IF t = "TimestampVec" THEN "Timestamp" ELSE Scalars[CHOOSE c \in 1..10 : Arrays[c] = t]

\* The type code IgniteWrite for Value puts before an array.
ArrayCode(t) == IF t = "TimestampVec" THEN 34 ELSE 11 + (CHOOSE c \in 1..10 : Arrays[c] = t)

\* IgniteWrite for char
IgniteWrite_char(cp) ==
    IF len_utf16(cp) = 1 THEN WrOk(put_u16(cp)) ELSE WrErr(<<>>, Serde)

\* IgniteWrite for the element type named t: the scalars raw, String, Uuid
\* and NaiveDateTime behind their type code.
IgniteWrite_T(t, x) ==
    CASE t = "I8" -> WrOk(put_i8(x))
      [] t = "I16" -> WrOk(put_i16_le(x))
      [] t = "I32" -> WrOk(put_i32_le(x))
      [] t = "I64" -> WrOk(put_i64_le(x))
      [] t = "F32" -> WrOk(put_f32_le(x))
      [] t = "F64" -> WrOk(put_i64_le(x))
      [] t = "Char" -> IgniteWrite_char(x)
      [] t = "Bool" -> WrOk(put_u8(IF x THEN 1 ELSE 0))
      [] t = "String" -> LET arr == as_bytes(x) IN WrOk(put_i8(9) \o put_i32_le(Len(arr)) \o arr)
      [] t = "Uuid" ->
            LET w == UuidWords(x) IN WrOk(put_i8(10) \o put_i64_le(w[1]) \o put_i64_le(w[2]))
      [] t = "Timestamp" ->
            WrOk(put_i8(33) \o put_i64_le(timestamp_millis(x)) \o put_i32_le(x.nanos))

RECURSIVE WriteItems(_, _, _)
\* for item in self { item.write(bytes)?; } after the bytes of b.
WriteItems(t, xs, b) ==
    IF xs = <<>> \/ ~b.ok THEN b
    ELSE WriteItems(t, Tail(xs), Then(b, IgniteWrite_T(t, Head(xs))))

\* IgniteWrite for Vec<T>
IgniteWrite_Vec(t, xs) == WriteItems(t, xs, WrOk(put_i32_le(Len(xs))))

RECURSIVE IgniteWrite(_)
RECURSIVE WriteValues(_, _)
\* The loop of write_collection!
WriteValues(vals, b) ==
    IF vals = <<>> \/ ~b.ok THEN b
    ELSE WriteValues(Tail(vals), Then(b, IgniteWrite(Head(vals))))

RECURSIVE WriteEntries(_, _)
\* The loop of write_map!
WriteEntries(entries, b) ==
    IF entries = <<>> \/ ~b.ok THEN b
    ELSE WriteEntries(Tail(entries),
                      Then(Then(b, IgniteWrite(Head(entries)[1])), IgniteWrite(Head(entries)[2])))

\* write_collection!
write_collection(col, type) ==
    WriteValues(col, WrOk(put_i8(24) \o put_i32_le(Len(col)) \o put_i8(type)))

\* write_map!
write_map(col, type) ==
    WriteEntries(col, WrOk(put_i8(25) \o put_i32_le(Len(col)) \o put_i8(type)))

\* IgniteWrite for Value
IgniteWrite(val) ==
    CASE val.t \in {Scalars[c] : c \in 1..8} ->
            Then(WrOk(put_i8(TYPE_CODE(val.t))), IgniteWrite_T(val.t, val.v))
      [] val.t \in {"String", "Uuid", "Timestamp"} -> IgniteWrite_T(val.t, val.v)
      [] val.t \in ArrayNames ->
            Then(WrOk(put_i8(ArrayCode(val.t))), IgniteWrite_Vec(ElemOf(val.t), val.v))
      [] val.t \in {Collections[c] : c \in 1..4} ->
            write_collection(val.v, CHOOSE c \in 1..4 : Collections[c] = val.t)
      [] val.t \in {Maps[c] : c \in 1..2} ->
            write_map(val.v, CHOOSE c \in 1..2 : Maps[c] = val.t)
      [] val.t = "BinaryObject" ->
            WrOk(put_i8(103) \o put_i8(PROTO_VER) \o put_i16_le(val.v.flags)
                    \o put_i32_le(val.v.type_id) \o put_i32_le(val.v.hash_code)
                    \o put_i32_le(Len(val.v.bytes) + 16) \o val.v.bytes)

\* IgniteWrite for Option<T>, T one of Value, String, Uuid and NaiveDateTime.
IgniteWrite_Option(opt) ==
    IF IsNull(opt) THEN WrOk(put_i8(NULL_FLAG)) ELSE IgniteWrite(opt)

\* check_flag
check_flag(s, expected) ==
    IF Len(s) < 1 THEN RdPanic
    ELSE IF get_i8(s) = expected THEN RdOk(Unit, Drop(s, 1))
    ELSE RdErr(Serde, Drop(s, 1))

\* IgniteRead for String, after its flag.
IgniteRead_String(s) ==
    IF Len(s) < 4 THEN RdPanic
    ELSE LET len == get_i32_le(s)
         IN  IF len < 0 \/ len > Len(s) - 4 THEN RdPanic
             ELSE LET r == from_utf8(SubSeq(s, 5, 4 + len))
                  IN  IF r.ok THEN RdOk(Val("String", r.str), Drop(s, 4 + len))
                      ELSE RdErr(FromUtf8Error, Drop(s, 4 + len))

\* IgniteRead for NaiveDateTime, after its flag: the milliseconds read are
\* handed to from_timestamp as seconds.
IgniteRead_NaiveDateTime(s) ==
    IF Len(s) < 12 THEN RdPanic
    ELSE LET millis == get_i64_le(s)
             nanos == get_i32_le(Drop(s, 8))
         IN  IF nanos < 0 \/ nanos >= 2000000000 \/ ~SecsInRange(millis) THEN RdPanic
             ELSE RdOk(Val("Timestamp", [secs |-> millis, nanos |-> nanos]), Drop(s, 12))

\* IgniteRead for the element type named t.
IgniteRead_T(t, s) ==
    LET fixed(n, v) == IF Len(s) < n THEN RdPanic ELSE RdOk(Val(t, v), Drop(s, n))
        flagged(code, r) ==
            LET f == check_flag(s, code) IN IF f.k # "ok" THEN f ELSE r
    IN  CASE t = "I8" -> fixed(1, get_i8(s))
          [] t = "I16" -> fixed(2, get_i16_le(s))
          [] t = "I32" -> fixed(4, get_i32_le(s))
          [] t = "I64" -> fixed(8, get_i64_le(s))
          [] t = "F32" -> fixed(4, get_f32_le(s))
          [] t = "F64" -> fixed(8, get_i64_le(s))
          [] t = "Char" ->
                IF Len(s) < 2 THEN RdPanic
                ELSE IF IsScalar16(get_u16_le(s)) THEN RdOk(Val("Char", get_u16_le(s)), Drop(s, 2))
                ELSE RdErr(Serde, Drop(s, 2))
          [] t = "Bool" -> fixed(1, get_u8(s) # 0)
          [] t = "String" -> flagged(9, IgniteRead_String(Drop(s, 1)))
          [] t = "Uuid" ->
                flagged(10, IF Len(s) < 17 THEN RdPanic
                            ELSE RdOk(Val("Uuid", UuidBytes(get_i64_le(Drop(s, 1)),
                                                            get_i64_le(Drop(s, 9)))),
                                      Drop(s, 17)))
          [] t = "Timestamp" -> flagged(33, IgniteRead_NaiveDateTime(Drop(s, 1)))

RECURSIVE ReadItems(_, _, _, _)
\* for _ in 0 .. len { vec.push(T::read(bytes)?); }
ReadItems(t, len, s, vec) ==
    IF len = 0 THEN RdOk(Val("Items", vec), s)
    ELSE LET r == IgniteRead_T(t, s)
         IN  IF r.k # "ok" THEN r ELSE ReadItems(t, len - 1, r.rest, Append(vec, r.v.v))

\* IgniteRead for Vec<T>, as the array variant named a.  A negative length is
\* a capacity no Vec can have.
IgniteRead_Vec(a, s) ==
    IF Len(s) < 4 THEN RdPanic
    ELSE LET len == get_i32_le(s)
         IN  IF len < 0 THEN RdPanic
             ELSE LET r == ReadItems(ElemOf(a), len, Drop(s, 4), <<>>)
                  IN  IF r.k # "ok" THEN r ELSE RdOk(Val(a, r.v.v), r.rest)

RECURSIVE IgniteRead(_)
RECURSIVE ReadValues(_, _, _)
\* for _ in 0 .. len { col.push(Value::read(bytes)?); }; a negative len is a
\* count no buffer can feed.
ReadValues(len, s, vec) ==
    IF len = 0 THEN RdOk(Val("Items", vec), s)
    ELSE LET r == IgniteRead(s)
         IN  IF r.k # "ok" THEN r ELSE ReadValues(len - 1, r.rest, Append(vec, r.v))

\* The arm of type code 24.  Hash for Value is unimplemented: the first insert
\* into a hash set panics.
read_collection(s) ==
    IF Len(s) < 5 THEN RdPanic
    ELSE LET len == get_i32_le(s)
             col_type == get_i8(Drop(s, 4))
             rest == Drop(s, 5)
             as(t, r) == IF r.k # "ok" THEN r ELSE RdOk(Val(t, r.v.v), r.rest)
         IN  CASE col_type \in {-1, 0, 1, 5} ->
                    IF len < 0 THEN RdPanic ELSE as("Vec", ReadValues(len, rest, <<>>))
               [] col_type = 2 -> as("LinkedList", ReadValues(len, rest, <<>>))
               [] col_type \in {3, 4} ->
                    IF len < 0 THEN RdPanic
                    ELSE IF len = 0 THEN RdOk(Val(Collections[col_type], <<>>), rest)
                    ELSE LET r == IgniteRead(rest) IN IF r.k # "ok" THEN r ELSE RdPanic
               [] OTHER -> RdErr(Serde, rest)

\* The arm of type code 25; the first insert into a hash map panics as well.
read_map(s) ==
    IF Len(s) < 5 THEN RdPanic
    ELSE LET len == get_i32_le(s)
             map_type == get_i8(Drop(s, 4))
             rest == Drop(s, 5)
         IN  IF map_type \in {1, 2}
             THEN IF len < 0 THEN RdPanic
                  ELSE IF len = 0 THEN RdOk(Val(Maps[map_type], <<>>), rest)
                  ELSE LET k == IgniteRead(rest)
                       IN  IF k.k # "ok" THEN k
                           ELSE LET v == IgniteRead(k.rest)
                                IN  IF v.k # "ok" THEN v ELSE RdPanic
             ELSE RdErr(Serde, rest)

\* The arm of type code 103: the body is sliced, the cursor stays before it.
read_binary_object(s) ==
    IF Len(s) < 1 THEN RdPanic
    ELSE IF get_i8(s) # PROTO_VER THEN RdErr(Serde, Drop(s, 1))
    ELSE IF Len(s) < 15 THEN RdPanic
    ELSE LET len == get_i32_le(Drop(s, 11)) - 16
             rest == Drop(s, 15)
         IN  IF len < 0 \/ len > Len(rest) THEN RdPanic
             ELSE RdOk(Val("BinaryObject",
                           [flags |-> get_i16_le(Drop(s, 1)), type_id |-> get_i32_le(Drop(s, 3)),
                            hash_code |-> get_i32_le(Drop(s, 7)), bytes |-> Take(rest, len)]),
                       rest)

\* IgniteRead for Value: the type code is looked at, and stepped over for the
\* codes 1 to 8 only.
IgniteRead(s) ==
    IF Len(s) < 1 THEN RdErr(Serde, s)
    ELSE LET type_code == get_u8(s)
             bytes == IF type_code >= 1 /\ type_code <= 8 THEN Drop(s, 1) ELSE s
         IN  CASE type_code >= 1 /\ type_code <= 10 -> IgniteRead_T(Scalars[type_code], bytes)
               [] type_code = 33 -> IgniteRead_T("Timestamp", bytes)
               [] type_code >= 12 /\ type_code <= 21 -> IgniteRead_Vec(Arrays[type_code - 11], bytes)
               [] type_code = 34 -> IgniteRead_Vec("TimestampVec", bytes)
               [] type_code = 24 -> read_collection(bytes)
               [] type_code = 25 -> read_map(bytes)
               [] type_code = 103 -> read_binary_object(bytes)
               [] OTHER -> RdErr(Serde, bytes)

\* The types an Option is read and written for.
NullableTypes == <<"Value", "String", "Uuid", "Timestamp">>

\* T::read for a Nullable type.
Nullable_read(t, s) == IF t = "Value" THEN IgniteRead(s) ELSE IgniteRead_T(t, s)

\* A read of an Option that steps over the byte it looked at before it hands
\* the buffer to T::read.
IgniteRead_Option_stepping(t, s) ==
    IF Len(s) < 1 THEN RdErr(Serde, s)
    ELSE IF s[1] = NULL_FLAG THEN RdOk(Null, Drop(s, 1))
    ELSE Nullable_read(t, Drop(s, 1))

\* IgniteRead for Option<T>
IgniteRead_Option(t, s) ==
    IF Len(s) < 1 THEN RdErr(Serde, s)
    ELSE IF s[1] = NULL_FLAG THEN RdOk(Null, Drop(s, 1))
    ELSE Nullable_read(t, s)

\* ----------------------------------------------------- cache operations

\* 31 * hash + c on the 64-bit accumulator, wrapping.
Mul31Add(h, c) ==
    LET t0 == 31 * h[4] + (c % 65536)
        t1 == 31 * h[3] + (c \div 65536) + (t0 \div 65536)
        t2 == 31 * h[2] + (t1 \div 65536)
        t3 == 31 * h[1] + (t2 \div 65536)
    IN  <<t3 % 65536, t2 % 65536, t1 % 65536, t0 % 65536>>

RECURSIVE HashChars(_, _, _)
\* The loop of Cache::id.  hash = 31 * hash + c is plain i64 arithmetic: where
\* the result passes 2^63 a build with overflow checks panics and a build
\* without them wraps.
HashChars(hash, name, checks) ==
    IF name = <<>> THEN [ok |-> TRUE, hash |-> hash]
    ELSE LET c == Head(name)
             carry == (31 * hash[4] + (c % 65536)) \div 65536
             t1 == 31 * hash[3] + (c \div 65536) + carry
             t2 == 31 * hash[2] + (t1 \div 65536)
             t3 == 31 * hash[1] + (t2 \div 65536)
         IN  IF checks /\ t3 >= 32768 THEN [ok |-> FALSE, hash |-> hash]
             ELSE HashChars(Mul31Add(hash, c), Tail(name), checks)

\* hash as i32: the low 32 bits, signed.
AsI32(w) == (IF w[3] >= 32768 THEN w[3] - 65536 ELSE w[3]) * 65536 + w[4]

\* Cache::id
Cache_id(name, checks) ==
    LET r == HashChars(Zero64, name, checks)
    IN  [ok |-> r.ok, id |-> AsI32(r.hash)]

\* An operation of the client: its name, the cache handle's name, and its
\* arguments (Null where the operation has none).
Op(name, cache, key, value) == [name |-> name, cache |-> cache, key |-> key, value |-> value]

\* The operations of a Cache handle, in the order of their operation codes
\* from 1000 on.  key is a key or, for the operations on several keys, their
\* sequence; value is a value, <<old_value, new_value>> for
\* replace_if_equals, the sequence of <<key, value>> entries for put_all, the
\* sequence of peek modes, as their u8, for size.
CacheOpNames ==
    <<"get", "put", "put_if_absent", "get_all", "put_all", "get_and_put", "get_and_replace",
      "get_and_remove", "get_and_put_if_absent", "replace", "replace_if_equals", "contains_key",
      "contains_keys", "clear", "clear_key", "clear_keys", "remove_key", "remove_if_equals",
      "remove_keys", "remove_all", "size">>

CacheOps == {CacheOpNames[i] : i \in 1..Len(CacheOpNames)}

\* The operation code of Cache::destroy, which lib.rs calls and cache.rs does
\* not hold: the code the protocol gives DestroyCache.
DESTROY_CACHE == 1056

\* Operation codes that begin at 1001.
operation_code_from_1001(op) ==
    IF op.name \in CacheOps
    THEN 1000 + (CHOOSE i \in 1..Len(CacheOpNames) : CacheOpNames[i] = op.name)
    ELSE 1050

\* The operation_code each operation passes to execute.
operation_code(op) ==
    CASE op.name \in CacheOps -> 999 + (CHOOSE i \in 1..Len(CacheOpNames) : CacheOpNames[i] = op.name)
      [] op.name = "cache_names" -> 1050
      [] op.name = "create_cache" -> 1051
      [] op.name = "destroy" -> DESTROY_CACHE

RECURSIVE WriteAll(_, _)
\* for key in keys { key.write(request)?; } after the bytes of b.
WriteAll(vals, b) ==
    IF vals = <<>> \/ ~b.ok THEN b ELSE WriteAll(Tail(vals), Then(b, BinaryWrite(Head(vals))))

\* Request writers that write the value before the key.
request_writer_value_first(op) ==
    CASE op.name \in {"get", "get_and_remove", "contains_key", "clear_key", "remove_key"} ->
            BinaryWrite(op.key)
      [] op.name \in {"put", "put_if_absent", "get_and_put", "get_and_replace",
                      "get_and_put_if_absent", "replace", "remove_if_equals"} ->
            Then(BinaryWrite(op.value), BinaryWrite(op.key))
      [] op.name = "replace_if_equals" ->
            Then(Then(BinaryWrite(op.value[1]), BinaryWrite(op.value[2])), BinaryWrite(op.key))
      [] op.name = "create_cache" -> BinaryWrite_String(op.cache)
      [] OTHER -> WrOk(<<>>)

\* The request_writer closure of each operation.
request_writer(op) ==
    CASE op.name \in {"get", "get_and_remove", "contains_key", "clear_key", "remove_key"} ->
            BinaryWrite(op.key)
      [] op.name \in {"put", "put_if_absent", "get_and_put", "get_and_replace",
                      "get_and_put_if_absent", "replace", "remove_if_equals"} ->
            Then(BinaryWrite(op.key), BinaryWrite(op.value))
      [] op.name = "replace_if_equals" ->
            Then(Then(BinaryWrite(op.key), BinaryWrite(op.value[1])), BinaryWrite(op.value[2]))
      [] op.name \in {"get_all", "contains_keys", "clear_keys", "remove_keys"} ->
            WriteAll(op.key, WrOk(put_i32_le(Len(op.key))))
      [] op.name = "put_all" ->
            WriteAll([i \in 1..2 * Len(op.value) |-> op.value[(i + 1) \div 2][2 - (i % 2)]],
                     WrOk(put_i32_le(Len(op.value))))
      [] op.name \in {"clear", "remove_all"} -> WrOk(<<>>)
      [] op.name = "size" ->
            WrOk(put_i32_le(Len(op.value))
                    \o [i \in 1..Len(op.value) |-> put_u8(op.value[i])[1]])
      [] op.name = "cache_names" -> WrOk(<<>>)
      [] op.name = "create_cache" -> BinaryWrite_String(op.cache)

\* A Cache::execute that writes the flags byte before the cache id.
Cache_execute_writer_flags_first(op, checks) ==
    LET id == Cache_id(op.cache, checks)
    IN  IF id.ok THEN Then(WrOk(put_i8(0) \o put_i32_le(id.id)), request_writer(op))
        ELSE WrPanic

\* Cache::execute's request writer: the cache id and the unused byte, then the
\* operation's own writer.  A panic of Cache::id unwinds through it.
Cache_execute_writer(op, checks) ==
    LET id == Cache_id(op.cache, checks)
    IN  IF id.ok THEN Then(WrOk(put_i32_le(id.id) \o put_i8(0)), request_writer(op))
        ELSE WrPanic

\* The request writer of Cache::destroy, as the protocol lays DestroyCache
\* out: the cache id and no flags byte.
Cache_destroy_writer(op, checks) ==
    LET id == Cache_id(op.cache, checks)
    IN  IF id.ok THEN WrOk(put_i32_le(id.id)) ELSE WrPanic

\* Tcp::execute up to the send: the request buffer, and the writer's error
\* when it returned one.
execute_request(op, checks) ==
    Then(WrOk(put_i16_le(operation_code(op)) \o put_i64_le(Zero64)),
         IF op.name \in CacheOps THEN Cache_execute_writer(op, checks)
         ELSE IF op.name = "destroy" THEN Cache_destroy_writer(op, checks)
         ELSE request_writer(op))

RECURSIVE read_names_but_last(_, _, _)
\* A loop that leaves the last name of the reply unread.
read_names_but_last(len, s, names) ==
    IF len <= 1 THEN RdOk(Val("Names", names), s)
    ELSE LET r == Value_read(s)
         IN  IF r.k # "ok" THEN r
             ELSE read_names_but_last(len - 1, r.rest,
                                      IF r.v.t = "String" THEN Append(names, r.v.v) ELSE names)

RECURSIVE read_names(_, _, _)
\* The loop of cache_names' response reader.
read_names(len, s, names) ==
    IF len = 0 THEN RdOk(Val("Names", names), s)
    ELSE LET r == Value_read(s)
         IN  IF r.k # "ok" THEN r
             ELSE read_names(len - 1, r.rest,
                             IF r.v.t = "String" THEN Append(names, r.v.v) ELSE names)

RECURSIVE read_entries_stop(_, _, _)
\* A loop that takes a null key for the end of the entries.
read_entries_stop(len, s, entries) ==
    IF len = 0 THEN RdOk(Val("Entries", entries), s)
    ELSE LET key == Value_read(s)
         IN  IF key.k # "ok" THEN key
             ELSE LET value == Value_read(key.rest)
                  IN  IF value.k # "ok" THEN value
                      ELSE IF IsNull(key.v) THEN RdOk(Val("Entries", entries), value.rest)
                      ELSE read_entries_stop(len - 1, value.rest,
                                             Append(entries, <<key.v, value.v>>))

RECURSIVE read_entries(_, _, _)
\* The loop of get_all's response reader.
read_entries(len, s, entries) ==
    IF len = 0 THEN RdOk(Val("Entries", entries), s)
    ELSE LET key == Value_read(s)
         IN  IF key.k # "ok" THEN key
             ELSE LET value == Value_read(key.rest)
                  IN  IF value.k # "ok" THEN value
                      ELSE read_entries(len - 1, value.rest,
                                        IF IsNull(key.v) THEN entries
                                        ELSE Append(entries, <<key.v, value.v>>))

\* The response_reader closure of each operation.
response_reader(op, s) ==
    CASE op.name \in {"get", "get_and_put", "get_and_replace", "get_and_remove",
                      "get_and_put_if_absent"} -> Value_read(s)
      [] op.name \in {"put", "put_all", "clear", "clear_key", "clear_keys", "remove_keys",
                      "remove_all"} -> RdOk(Unit, s)
      [] op.name \in {"put_if_absent", "replace", "replace_if_equals", "contains_key",
                      "contains_keys", "remove_key", "remove_if_equals"} ->
            IF Len(s) < 1 THEN RdPanic ELSE RdOk(Val("Bool", get_i8(s) # 0), Drop(s, 1))
      [] op.name = "get_all" ->
            IF Len(s) < 4 THEN RdPanic
            ELSE LET len == get_i32_le(s)
                 IN  IF len < 0 THEN RdPanic ELSE read_entries(len, Drop(s, 4), <<>>)
      [] op.name = "size" ->
            IF Len(s) < 8 THEN RdPanic ELSE RdOk(Val("I64", get_i64_le(s)), Drop(s, 8))
      [] op.name = "cache_names" ->
            IF Len(s) < 4 THEN RdPanic
            ELSE LET len == get_i32_le(s)
                 IN  IF len < 0 THEN RdPanic ELSE read_names(len, Drop(s, 4), <<>>)
      [] op.name \in {"create_cache", "destroy"} -> RdOk(Unit, s)

\* What a call returned: k is "ok" (v), "err" (err) or "panic"; "none" while
\* no call has returned yet or one is under way.  read tells whether the call
\* ran its response reader.
Returned(r) == [k |-> r.k, v |-> r.v, err |-> r.err, read |-> FALSE]
ReaderReturned(r) == [k |-> r.k, v |-> r.v, err |-> r.err, read |-> TRUE]
NoResult == [k |-> "none", v |-> Null, err |-> NoErr, read |-> FALSE]
Ok(v) == [k |-> "ok", v |-> v, err |-> NoErr, read |-> FALSE]
Err(e) == [k |-> "err", v |-> Null, err |-> e, read |-> FALSE]
Panic == [k |-> "panic", v |-> Null, err |-> NoErr, read |-> FALSE]

\* Outcomes are compared variant first, like the values they hold.
SameOutcome(a, b) == a.k = b.k /\ SameValue(a.v, b.v) /\ a.err = b.err

\* A status error that keeps the status whatever the bytes of the message.
status_error_lossy(status, rest) ==
    LET message == from_utf8(rest)
    IN  Err(Error_new("Ignite", status, IF message.ok THEN message.str ELSE <<65533>>, <<>>))

\* The error Tcp::execute builds from a non-zero status and the rest of the reply.
status_error(status, rest) ==
    LET message == from_utf8(rest)
    IN  IF message.ok THEN Err(Error_new("Ignite", status, message.str, <<>>))
        ELSE Err(FromUtf8Error)

\* Tcp::execute after the send: the reply's request id, status and body.
execute_reply(op, response) ==
    IF Len(response) < 8 THEN Panic
    ELSE IF get_i64_le(response) # Zero64 THEN Panic
    ELSE IF Len(response) < 12 THEN Panic
    ELSE LET status == get_i32_le(Drop(response, 8))
             rest == Drop(response, 12)
         IN  IF status = 0 THEN ReaderReturned(response_reader(op, rest))
             ELSE status_error(status, rest)

\* Client::create_cache after its execute: the handle on success.
Client_result(op, r) ==
    IF op.name = "create_cache" /\ r.k = "ok" THEN [r EXCEPT !.v = Val("Cache", op.cache)]
    ELSE r

\* ------------------------------------------------------------- handshake

\* Configuration: username and password, each a String or Null.
Configuration(username, password) == [username |-> username, password |-> password]

\* A handshake request that writes nothing for an absent password.
handshake_request_no_null(config) ==
    put_i8(1) \o put_i16_le(VERSION_MAJOR) \o put_i16_le(VERSION_MINOR)
        \o put_i16_le(VERSION_PATCH) \o put_i8(2)
        \o (IF ~IsNull(config.username)
            THEN BinaryWrite_String(config.username.v).bytes
                    \o (IF IsNull(config.password) THEN <<>>
                        ELSE BinaryWrite_String(config.password.v).bytes)
            ELSE <<>>)

\* Tcp::handshake up to the send.
handshake_request(config) ==
    put_i8(1) \o put_i16_le(VERSION_MAJOR) \o put_i16_le(VERSION_MINOR)
        \o put_i16_le(VERSION_PATCH) \o put_i8(2)
        \o (IF ~IsNull(config.username)
            THEN BinaryWrite_String(config.username.v).bytes
                    \o BinaryWrite_Option(config.password).bytes
            ELSE <<>>)

\* "Handshake unexpected failure"
UnexpectedFailure ==
    <<72, 97, 110, 100, 115, 104, 97, 107, 101, 32, 117, 110, 101, 120,
      112, 101, 99, 116, 101, 100, 32, 102, 97, 105, 108, 117, 114, 101>>

\* Tcp::handshake after the send.
handshake_reply(response) ==
    IF Len(response) < 1 THEN Panic
    ELSE IF get_u8(response) = 1 THEN Ok(Unit)
    ELSE IF Len(response) < 7 THEN Panic
    ELSE LET major == get_i16_le(Drop(response, 1))
             minor == get_i16_le(Drop(response, 3))
             patch == get_i16_le(Drop(response, 5))
             ver == <<major, minor, patch, VERSION_MAJOR, VERSION_MINOR, VERSION_PATCH>>
             message == Value_read(Drop(response, 7))
         IN  IF message.k # "ok" THEN Returned(message)
             ELSE Err(Error_new("Handshake", 0,
                                IF message.v.t = "String" THEN message.v.v
                                ELSE UnexpectedFailure, ver))

\* ------------------------------------------------------------- transport

\* A send that writes the length most significant byte first.
send_write_be(msg) ==
    <<ByteAt(Len(msg), 3), ByteAt(Len(msg), 2), ByteAt(Len(msg), 1), ByteAt(Len(msg), 0)>> \o msg

\* Tcp::send, the write: the length prefix and the message.
send_write(msg) == put_i32_le(Len(msg)) \o msg

\* A length read that stops at the twelve bytes of a reply's request id and
\* status.
send_read_len_header(len) == IF get_i32_le(len) > 12 THEN 12 ELSE get_i32_le(len)

\* Tcp::send, the length read from the four bytes of the prefix.
send_read_len(len) == get_i32_le(len)

\* An execute that sends the request buffer whatever its writer returned.
execute_send_anyway(request) == send_write(request.bytes)

\* Tcp::execute, from the request writer to the send: what goes to the
\* stream.  The writer's error returns before the send.
execute_send(request) == IF request.ok THEN send_write(request.bytes) ELSE <<>>

\* A send that returns once the frame is written, the reply left unread.
AfterWrite_no_read(reading) == "ready"

\* Where a call stands once send has written its frame: send goes on to read.
AfterWrite(reading) == reading

\* Client::start after the handshake: a Client only when it returned Ok.
start_result(r) ==
    CASE r.k = "ok" -> "ready"
      [] r.k = "err" -> "failed"
      [] r.k = "panic" -> "panicked"

\* ------------------------------------------------------------ the server
\* The peer of the stream.  It answers each request frame with one reply
\* frame of its choice, whole or cut short by the end of the stream.

Str_c == <<99>>
Str_e == <<101>>
Str_u == <<117>>
Str_p == <<112>>
\* Thirteen letters: the shortest ASCII name whose hash passes 2^63.
Str_long == [i \in 1..13 |-> 97]

\* A reply to an operation: the request id, the status and the rest, as the
\* server means them (wf), and raw, the payload it sends; cut is the number
\* of bytes of the frame that arrive before the stream ends, -1 for all.
Reply(id, status, rest, msg) ==
    [id |-> id, status |-> status, rest |-> rest, msg |-> msg, wf |-> TRUE,
     raw |-> put_i64_le(id) \o put_i32_le(status) \o rest, cut |-> -1]
RawReply(raw) ==
    [id |-> Zero64, status |-> 0, rest |-> <<>>, msg |-> <<>>, wf |-> FALSE,
     raw |-> raw, cut |-> -1]

OpReplies ==
    { Reply(Zero64, 0, <<>>, <<>>),
      Reply(Zero64, 0, <<101>>, <<>>),
      Reply(Zero64, 0, <<3, 1, 0, 0, 0>>, <<>>),
      Reply(Zero64, 0, <<50>>, <<>>),
      Reply(Zero64, 0, <<3, 1>>, <<>>),
      Reply(Zero64, 0, <<1, 0, 0, 0, 9, 1, 0, 0, 0, 99>>, <<>>),
      Reply(Zero64, 7, as_bytes(Str_e), Str_e),
      Reply(Zero64, 7, <<255>>, <<>>),
      Reply(<<0, 0, 0, 1>>, 0, <<>>, <<>>),
      RawReply(<<0, 0, 0>>),
      RawReply(<<0, 0, 0, 0, 0, 0, 0, 0, 7>>) }

\* A reply to the handshake: accepted; rejected with the server's version and
\* a message, a null message or a message of an unknown type; cut short.
HandshakeReplies ==
    { RawReply(<<1>>),
      RawReply(<<0, 2, 0, 1, 0, 0, 0, 9, 1, 0, 0, 0, 101>>),
      RawReply(<<0, 2, 0, 1, 0, 0, 0, 101>>),
      RawReply(<<0, 2, 0, 1, 0, 0, 0, 50>>),
      RawReply(<<0, 2, 0>>),
      RawReply(<<>>) }

\* How many bytes of a frame arrive when the stream ends inside it.
CutPoints == {0, 2, 5}

\* ------------------------------------------------------------ the client

\* Menus are sequences: values of different variants are never compared.
Configurations ==
    << Configuration(Null, Null),
       Configuration(Null, Val("String", Str_p)),
       Configuration(Val("String", Str_u), Null),
       Configuration(Val("String", Str_u), Val("String", Str_p)) >>

I32(v) == Val("I32", v)
\* U+1F600, outside the Basic Multilingual Plane.
CharAstral == Val("Char", 128512)

Operations ==
    << Op("get", Str_c, I32(42), Null),
       Op("get", Str_c, CharAstral, Null),
       Op("put", Str_c, I32(42), I32(1)),
       Op("put", Str_long, I32(42), I32(1)),
       Op("put", Str_c, I32(42), CharAstral),
       Op("cache_names", <<>>, Null, Null),
       Op("create_cache", Str_c, Null, Null) >>

\* Client::start as a call: its arguments are the configuration's username
\* and password.
Handshake(config) == Op("handshake", <<>>, config.username, config.password)
NoOp == Op("none", <<>>, Null, Null)

VARIABLES
    pc,       \* where the client stands: "new", "hs_len", "hs_body", "ready",
              \* "op_len", "op_body", "failed" (start returned Err), "panicked"
    c2s,      \* bytes written to the stream that the server has not read yet
    s2c,      \* bytes the server sent that the client has not read yet, each
              \* [b |-> byte, r |-> number of the request it answers]
    eof,      \* the stream has ended: the server sends nothing more
    need,     \* the length the reply's prefix announced, while the body is read
    cur,      \* the call under way or last returned
    wrote,    \* the bytes that call has written to the stream
    got,      \* the reply payload send returned to that call, its tags in gotTags
    gotTags,
    result,   \* what the last call returned
    prevKind, \* the kind of outcome of the call before it
    calls,    \* operations issued on the Client
    sent,     \* frames written in full
    recv,     \* frames read in full
    inflight, \* frames written whose reply is neither read in full nor given up
    srv,      \* the reply the server chose for the last request it read
    srvSeen,  \* frames the server has read
    hs        \* the handshake: the reply payload read and what start returned

netVars == <<pc, c2s, s2c, eof, need, cur, wrote, got, gotTags, result, prevKind,
             calls, sent, recv, inflight, srv, srvSeen, hs>>

\* The codec and the framing on their own, one job from its input to its
\* outcome.
VARIABLES
    job,      \* the input: a value or an Option to write and read back, a
              \* buffer to read, a payload to frame
    cst,      \* how far the job is
    cbuf,     \* the buffer written, then read from
    wr,       \* the outcome of the write
    rd        \* the outcome of the read

codecVars == <<job, cst, cbuf, wr, rd>>

\* The build: whether integer overflow is checked (the dev and test profiles)
\* or wraps (the release profile).
VARIABLE overflow_checks

\* The Cache handles and the caches behind them.
VARIABLES
    handles,  \* the names the Client has made a Cache handle for
    store,    \* what the server's caches hold: <<cache id, key, value>>, each
              \* as the bytes that came in a request
    log,      \* the operations the server has applied to its caches, in order
    caches    \* the names of the caches the server has

cacheVars == <<handles, store, log, caches>>

vars == <<netVars, codecVars, overflow_checks, cacheVars>>

Bytes(tagged) == [i \in 1..Len(tagged) |-> tagged[i].b]
Tagged(bytes, r) == [i \in 1..Len(bytes) |-> [b |-> bytes[i], r |-> r]]

\* The kind of an outcome: "ok", "panic", "none" or the error's kind.
Kind(r) == IF r.k = "err" THEN r.err.kind ELSE r.k

NetInit ==
    /\ pc = "new" /\ c2s = <<>> /\ s2c = <<>> /\ eof = FALSE /\ need = 0
    /\ cur = NoOp /\ wrote = <<>> /\ got = <<>> /\ gotTags = {}
    /\ result = NoResult /\ prevKind = "none"
    /\ calls = 0 /\ sent = 0 /\ recv = 0 /\ inflight = 0
    /\ srv = RawReply(<<>>) /\ srvSeen = 0
    /\ hs = [reply |-> <<>>, r |-> NoResult]
    /\ overflow_checks \in BOOLEAN
    /\ handles = {} /\ store = {} /\ log = <<>> /\ caches = {Str_c}

Job(kind, codec, ty, val, buf, tail) ==
    [kind |-> kind, codec |-> codec, ty |-> ty, val |-> val, buf |-> buf, tail |-> tail]
NoJob == Job("none", "none", "none", Null, <<>>, <<>>)
RdNone == [k |-> "none", v |-> Null, rest |-> <<>>, err |-> NoErr]

CodecIdle ==
    /\ job = NoJob /\ cst = "idle" /\ cbuf = <<>> /\ wr = WrOk(<<>>) /\ rd = RdNone

Init == NetInit /\ CodecIdle

\* Client::start when TcpStream::connect fails.
ConnectFail ==
    /\ pc = "new"
    /\ pc' = "failed"
    /\ result' = Err(FromIoError)
    /\ hs' = [hs EXCEPT !.r = Err(FromIoError)]
    /\ UNCHANGED <<codecVars, overflow_checks, cacheVars>>
    /\ UNCHANGED <<c2s, s2c, eof, need, cur, wrote, got, gotTags, prevKind, calls,
                   sent, recv, inflight, srv, srvSeen>>

\* Client::start: connect, then Tcp::handshake up to the write of its frame.
Start(config) ==
    /\ pc = "new"
    /\ LET frame == send_write(handshake_request(config))
       IN  /\ c2s' = c2s \o frame
           /\ wrote' = frame
    /\ cur' = Handshake(config)
    /\ sent' = sent + 1
    /\ inflight' = inflight + 1
    /\ pc' = AfterWrite("hs_len")
    /\ UNCHANGED <<codecVars, overflow_checks, cacheVars>>
    /\ UNCHANGED <<s2c, eof, need, got, gotTags, result, prevKind, calls, recv,
                   srv, srvSeen, hs>>

\* An operation on the Client or on a Cache handle: Tcp::execute up to the
\* write of its frame, or to the return of its request writer's error.
Execute(op) ==
    /\ pc = "ready"
    /\ calls < MaxOps
    /\ op.name \in CacheOps \cup {"destroy"} => op.cache \in handles
    /\ calls' = calls + 1
    /\ cur' = op
    /\ prevKind' = Kind(result)
    /\ got' = <<>> /\ gotTags' = {}
    /\ LET request == execute_request(op, overflow_checks)
           frame == execute_send(request)
       IN  /\ c2s' = c2s \o frame
           /\ wrote' = frame
           /\ result' = (IF request.ok THEN NoResult
                         ELSE IF request = WrPanic THEN Panic ELSE Err(request.err))
           /\ IF frame # <<>>
              THEN /\ sent' = sent + 1
                   /\ inflight' = inflight + 1
                   /\ pc' = AfterWrite("op_len")
              ELSE /\ pc' = (IF request = WrPanic THEN "panicked" ELSE pc)
                   /\ UNCHANGED <<sent, inflight>>
    /\ UNCHANGED <<codecVars, overflow_checks, cacheVars>>
    /\ UNCHANGED <<s2c, eof, need, recv, srv, srvSeen, hs>>

\* An operation whose write_all or flush fails: the stream has ended.
ExecuteWriteFails(op) ==
    /\ pc = "ready"
    /\ calls < MaxOps
    /\ op.name \in CacheOps \cup {"destroy"} => op.cache \in handles
    /\ eof
    /\ execute_request(op, overflow_checks).ok
    /\ calls' = calls + 1
    /\ cur' = op
    /\ prevKind' = Kind(result)
    /\ got' = <<>> /\ gotTags' = {}
    /\ wrote' = <<>>
    /\ result' = Err(FromIoError)
    /\ UNCHANGED <<codecVars, overflow_checks, cacheVars>>
    /\ UNCHANGED <<pc, c2s, s2c, eof, need, sent, recv, inflight, srv, srvSeen, hs>>

\* A Client::cache that asks the server for the cache before it returns the
\* handle.
ClientCache_contacting(name) ==
    /\ pc = "ready"
    /\ name \notin handles
    /\ handles' = handles \cup {name}
    /\ LET frame == send_write(put_i16_le(1052) \o put_i64_le(Zero64)
                                  \o BinaryWrite_String(name).bytes)
       IN  c2s' = c2s \o frame /\ wrote' = frame
    /\ sent' = sent + 1
    /\ UNCHANGED <<pc, s2c, eof, need, cur, got, gotTags, result, prevKind, calls, recv,
                   inflight, srv, srvSeen, hs>>
    /\ UNCHANGED <<codecVars, overflow_checks, store, log, caches>>

\* Client::cache: Cache::new on the name and a clone of the Rc of the Tcp.
ClientCache(name) ==
    /\ pc = "ready"
    /\ name \notin handles
    /\ handles' = handles \cup {name}
    /\ UNCHANGED netVars
    /\ UNCHANGED <<codecVars, overflow_checks, store, log, caches>>

\* What the call under way returns to: Client::start gives no Client on an
\* error, an operation leaves the Client as it is.
AfterError == IF pc \in {"hs_len", "hs_body"} THEN "failed" ELSE "ready"

\* Tcp::send: read_exact of the four bytes of the length prefix.
ReadLen ==
    /\ pc \in {"hs_len", "op_len"}
    /\ IF Len(s2c) >= 4
       THEN LET len == send_read_len(Bytes(Take(s2c, 4)))
            IN  /\ s2c' = Drop(s2c, 4)
                /\ IF len < 0
                   THEN /\ pc' = "panicked"
                        /\ result' = Panic
                        /\ hs' = (IF pc = "hs_len" THEN [hs EXCEPT !.r = Panic] ELSE hs)
                        /\ UNCHANGED need
                   ELSE /\ pc' = (IF pc = "hs_len" THEN "hs_body" ELSE "op_body")
                        /\ need' = len
                        /\ UNCHANGED <<result, hs>>
                /\ UNCHANGED inflight
       ELSE /\ eof
            /\ s2c' = <<>>
            /\ result' = Err(FromIoError)
            /\ hs' = (IF pc = "hs_len" THEN [hs EXCEPT !.r = Err(FromIoError)] ELSE hs)
            /\ inflight' = inflight - 1
            /\ pc' = AfterError
            /\ UNCHANGED need
    /\ UNCHANGED <<codecVars, overflow_checks, cacheVars>>
    /\ UNCHANGED <<c2s, eof, cur, wrote, got, gotTags, prevKind, calls, sent, recv,
                   srv, srvSeen>>

\* Tcp::send: read_exact of the announced bytes, then the rest of
\* Tcp::handshake (and Client::start) or of Tcp::execute (and the operation).
ReadBody ==
    /\ pc \in {"hs_body", "op_body"}
    /\ IF Len(s2c) >= need
       THEN LET response == Bytes(Take(s2c, need))
                r == IF pc = "hs_body" THEN handshake_reply(response)
                     ELSE Client_result(cur, execute_reply(cur, response))
            IN  /\ s2c' = Drop(s2c, need)
                /\ got' = response
                /\ gotTags' = {s2c[i].r : i \in 1..need}
                /\ recv' = recv + 1
                /\ result' = r
                /\ hs' = (IF pc = "hs_body" THEN [reply |-> response, r |-> r] ELSE hs)
                /\ pc' = (IF pc = "hs_body" THEN start_result(r)
                          ELSE IF r.k = "panic" THEN "panicked" ELSE "ready")
       ELSE /\ eof
            /\ s2c' = <<>>
            /\ result' = Err(FromIoError)
            /\ hs' = (IF pc = "hs_body" THEN [hs EXCEPT !.r = Err(FromIoError)] ELSE hs)
            /\ pc' = AfterError
            /\ UNCHANGED <<got, gotTags, recv>>
    /\ inflight' = inflight - 1
    /\ need' = 0
    /\ handles' = (IF pc = "op_body" /\ cur.name = "create_cache" /\ result'.k = "ok"
                   THEN handles \cup {cur.cache} ELSE handles)
    /\ UNCHANGED <<codecVars, overflow_checks, store, log, caches>>
    /\ UNCHANGED <<c2s, eof, cur, wrote, prevKind, calls, sent, srv, srvSeen>>

\* The server reads one request frame and answers it, in full or cut short.
ServerReply(reply, cut) ==
    /\ ~eof
    /\ Len(c2s) >= 4
    /\ reply \in (IF srvSeen = 0 THEN HandshakeReplies ELSE OpReplies)
    /\ LET n == get_i32_le(c2s)
           frame == put_i32_le(Len(reply.raw)) \o reply.raw
       IN  /\ Len(c2s) >= 4 + n
           /\ c2s' = Drop(c2s, 4 + n)
           /\ IF cut < 0
              THEN /\ s2c' = s2c \o Tagged(frame, srvSeen + 1)
                   /\ UNCHANGED eof
              ELSE /\ cut < Len(frame)
                   /\ s2c' = s2c \o Tagged(Take(frame, cut), srvSeen + 1)
                   /\ eof' = TRUE
    /\ srv' = [reply EXCEPT !.cut = cut]
    /\ srvSeen' = srvSeen + 1
    /\ UNCHANGED <<codecVars, overflow_checks, cacheVars>>
    /\ UNCHANGED <<pc, need, cur, wrote, got, gotTags, result, prevKind, calls, sent,
                   recv, inflight, hs>>

\* The stream ends between two operations.
ServerClose ==
    /\ ~eof
    /\ pc = "ready"
    /\ eof' = TRUE
    /\ UNCHANGED <<codecVars, overflow_checks, cacheVars>>
    /\ UNCHANGED <<pc, c2s, s2c, need, cur, wrote, got, gotTags, result, prevKind,
                   calls, sent, recv, inflight, srv, srvSeen, hs>>

Next ==
    \/ ConnectFail
    \/ \E i \in 1..Len(Configurations) : Start(Configurations[i])
    \/ \E i \in 1..Len(Operations) : Execute(Operations[i])
    \/ \E i \in 1..Len(Operations) : ExecuteWriteFails(Operations[i])
    \/ ReadLen
    \/ ReadBody
    \/ \E reply \in HandshakeReplies \cup OpReplies, cut \in CutPoints \cup {-1} :
            ServerReply(reply, cut)
    \/ ServerClose
    \/ \E name \in {Str_c, Str_long} : ClientCache(name)

Spec == Init /\ [][Next]_vars

\* ------------------------------------------- the codec and the framing
\* A second specification: each behaviour takes one input through a write and
\* the read of what was written, or through a read alone.

Word(n) == <<0, 0, 0, n>>
Uuid_a == [i \in 1..16 |-> i]
Uuid_b == [i \in 1..16 |-> 256 - i]
NaiveDateTime(secs, nanos) == [secs |-> Word(secs), nanos |-> nanos]

\* Values of src/src/binary.rs, one or more of each variant.
BinaryValues ==
    << Val("I8", -1), Val("I16", 258), I32(42), I32(-2), Val("I64", Word(1)),
       Val("I64", <<65535, 65535, 65535, 65534>>), Val("F32", <<16320, 0>>),
       Val("F64", <<16376, 0, 0, 0>>), Val("Char", 97), Val("Char", 257), Val("Char", 216),
       CharAstral, Val("Bool", TRUE), Val("Bool", FALSE), Val("String", <<>>),
       Val("String", <<99, 233>>), Val("Uuid", Uuid_a), Val("Uuid", Uuid_b) >>

\* Values of src/src/binary/mod.rs: those, and the variants it adds.  A hash
\* set or map of Values can only be empty, Hash for Value being unimplemented.
CodecValues ==
    BinaryValues \o
    << Val("Timestamp", NaiveDateTime(0, 0)), Val("Timestamp", NaiveDateTime(1, 5000000)),
       Val("I8Vec", <<>>), Val("I8Vec", <<1, 2>>), Val("I16Vec", <<258>>), Val("I32Vec", <<7>>),
       Val("I64Vec", <<Word(1)>>), Val("F32Vec", <<<<16320, 0>>>>),
       Val("F64Vec", <<<<16376, 0, 0, 0>>>>), Val("CharVec", <<97>>),
       Val("CharVec", <<97, 128512>>), Val("BoolVec", <<TRUE, FALSE>>),
       Val("StringVec", <<Str_c>>), Val("UuidVec", <<Uuid_a>>),
       Val("TimestampVec", <<NaiveDateTime(0, 0)>>),
       Val("Vec", <<>>), Val("Vec", <<I32(1), Val("String", Str_c)>>),
       Val("LinkedList", <<Val("I8", 1)>>), Val("HashSet", <<>>), Val("LinkedHashSet", <<>>),
       Val("HashMap", <<>>), Val("LinkedHashMap", <<>>),
       Val("BinaryObject", [flags |-> 0, type_id |-> 1, hash_code |-> 2, bytes |-> <<9, 9>>]) >>

\* Options to write: the type T and the Option<T>.
BinaryOptions ==
    << <<"I32", Null>>, <<"I32", I32(42)>>, <<"String", Null>>, <<"String", Val("String", Str_c)>>,
       <<"Uuid", Null>>, <<"Uuid", Val("Uuid", Uuid_a)>>, <<"Value", Null>>, <<"Value", I32(42)>>,
       <<"Value", Val("Char", 257)>> >>
CodecOptions ==
    << <<"Value", Null>>, <<"Value", I32(42)>>, <<"Value", Val("String", Str_c)>>,
       <<"Value", Val("I8Vec", <<1, 2>>)>>, <<"String", Null>>, <<"String", Val("String", Str_c)>>,
       <<"Uuid", Null>>, <<"Uuid", Val("Uuid", Uuid_a)>>, <<"Timestamp", Null>>,
       <<"Timestamp", Val("Timestamp", NaiveDateTime(0, 0))>> >>

\* Buffers to read an Option from.
Buffers ==
    { <<101>>, <<101, 101>>, <<101, 3, 1, 0, 0, 0>>, <<3, 1, 0, 0, 0>>, <<3, 1, 0, 0, 0, 101>>,
      <<9, 1, 0, 0, 0, 99>>, <<9, 1, 0, 0, 0, 255>>, <<9, 5, 0, 0, 0, 99>>, <<50>>, <<3, 1>>,
      <<>>, <<24, 1, 0, 0, 0, 5, 3, 7, 0, 0, 0>>, <<24, 0, 0, 0, 0, 9>>,
      <<103, 2, 0, 0, 1, 0, 0, 0, 2, 0, 0, 0, 16, 0, 0, 0>> }
BinaryTypes == <<"Value", "I32", "String", "Uuid">>

\* Bytes that follow in the buffer or on the stream.
Tails == {<<>>, <<101>>, <<3, 7, 0, 0, 0>>}

\* Payloads to frame: empty, short, and longer than one length byte counts.
Payloads == {<<>>, <<0>>, <<232, 3, 0, 0, 0, 0, 0, 0, 0, 0>>, [i \in 1..300 |-> i % 256]}

\* Cache names: empty, the spec's examples, the tests' names, a name with a
\* character outside the Basic Multilingual Plane, and names long enough for
\* the hash to pass 2^63.
Names ==
    { <<>>, <<97>>, <<97, 98, 99>>, Str_c, <<116, 101, 115, 116>>, <<128512, 97>>,
      [i \in 1..12 |-> 122], Str_long, [i \in 1..20 |-> 65 + i] }

\* Calls on a Cache handle, one or more of each operation.
CacheRequests ==
    LET k == I32(42)
        s == Val("String", Str_c)
        test == <<116, 101, 115, 116>>
    IN  << Op("get", Str_c, k, Null), Op("get", test, s, Null), Op("get", Str_long, k, Null),
           Op("get", Str_c, CharAstral, Null),
           Op("put", Str_c, k, s), Op("put", test, s, CharAstral),
           Op("put_if_absent", Str_c, k, s),
           Op("get_all", Str_c, <<>>, Null), Op("get_all", test, <<k, s, k>>, Null),
           Op("put_all", Str_c, Null, <<>>), Op("put_all", Str_c, Null, <<<<k, s>>, <<s, k>>>>),
           Op("put_all", Str_c, Null, <<<<k, s>>, <<CharAstral, k>>, <<s, k>>>>),
           Op("get_and_put", Str_c, k, s), Op("get_and_replace", Str_c, k, s),
           Op("get_and_remove", Str_c, k, Null), Op("get_and_put_if_absent", Str_c, k, s),
           Op("replace", Str_c, k, s),
           Op("replace_if_equals", Str_c, k, <<s, I32(2)>>),
           Op("replace_if_equals", Str_c, k, <<s, CharAstral>>),
           Op("contains_key", Str_c, s, Null), Op("contains_keys", Str_c, <<k, s>>, Null),
           Op("clear", test, Null, Null), Op("clear_key", Str_c, k, Null),
           Op("clear_keys", Str_c, <<s>>, Null), Op("remove_key", Str_c, k, Null),
           Op("remove_if_equals", Str_c, k, s), Op("remove_keys", Str_c, <<k, k>>, Null),
           Op("remove_all", Str_c, Null, Null),
           Op("size", Str_c, Null, <<>>), Op("size", Str_c, Null, <<0, 3, 1, 2>>) >>

\* Replies to get_all as the server means them: the (key, value) pairs, a
\* key or a value absent in some.
EntryReplies ==
    LET k(n) == I32(n)
        s == Val("String", Str_c)
    IN  << <<>>, <<<<k(1), k(1)>>, <<k(2), k(2)>>, <<k(3), k(3)>>>>,
           <<<<k(1), Null>>, <<s, k(2)>>>>,
           <<<<k(1), k(1)>>, <<Null, k(2)>>, <<k(3), s>>>>,
           <<<<Null, Null>>, <<s, Null>>>>,
           <<<<Null, s>>, <<Null, Null>>, <<k(3), k(3)>>, <<Null, k(4)>>>> >>

\* The bytes of such a reply: the count, then each key and value.
EntriesBytes(entries) ==
    LET bytes[i \in 0..Len(entries)] ==
            IF i = 0 THEN put_i32_le(Len(entries))
            ELSE bytes[i - 1] \o BinaryWrite_Option(entries[i][1]).bytes
                              \o BinaryWrite_Option(entries[i][2]).bytes
    IN  bytes[Len(entries)]

\* ------------------------------------ configuration.rs: CacheConfiguration
\* A type is named as the source names it.  An enum is its i32, a struct the
\* record of its fields, a Vec the sequence of its items, a pair a sequence
\* of two, an Option Null or the value.

\* The fields of the structs that derive IgniteWrite, in their order.
StructFields(ty) ==
    CASE ty = "CacheKeyConfiguration" ->
            << <<"type_name", "String">>, <<"affinity_key_field_name", "String">> >>
      [] ty = "QueryField" ->
            << <<"name", "String">>, <<"type_name", "String">>, <<"key_field", "Bool">>,
               <<"not_null", "Bool">>, <<"default_value", "Option">> >>
      [] ty = "QueryIndex" ->
            << <<"index_name", "String">>, <<"index_type", "enum">>, <<"inline_size", "I32">>,
               <<"fields", "Vec<(String, bool)>">> >>
      [] ty = "QueryEntity" ->
            << <<"key_type_name", "String">>, <<"value_type_name", "String">>,
               <<"table_name", "String">>, <<"key_field_name", "Option">>,
               <<"value_field_name", "Option">>, <<"fields", "Vec<QueryField>">>,
               <<"aliases", "Vec<(String, String)>">>, <<"indexes", "Vec<QueryIndex>">> >>

\* The item type of the Vecs of a configuration.
ItemOf(ty) ==
    CASE ty = "Vec<CacheKeyConfiguration>" -> "CacheKeyConfiguration"
      [] ty = "Vec<QueryEntity>" -> "QueryEntity"
      [] ty = "Vec<QueryField>" -> "QueryField"
      [] ty = "Vec<QueryIndex>" -> "QueryIndex"
      [] ty = "Vec<(String, String)>" -> "(String, String)"
      [] ty = "Vec<(String, bool)>" -> "(String, bool)"

RECURSIVE IgniteWrite_as(_, _)
\* IgniteWrite for the type named ty: the derived write of an enum and of a
\* struct, the write of a pair, of a Vec, of an Option and of a scalar.
IgniteWrite_as(ty, x) ==
    CASE ty = "enum" -> IgniteWrite_T("I32", x)
      [] ty \in {"I32", "I64", "Bool", "String"} -> IgniteWrite_T(ty, x)
      [] ty = "Option" -> IgniteWrite_Option(x)
      [] ty = "(String, String)" ->
            Then(IgniteWrite_T("String", x[1]), IgniteWrite_T("String", x[2]))
      [] ty = "(String, bool)" ->
            Then(IgniteWrite_T("String", x[1]), IgniteWrite_T("Bool", x[2]))
      [] ty \in {"CacheKeyConfiguration", "QueryField", "QueryIndex", "QueryEntity"} ->
            LET fields == StructFields(ty)
                w[i \in 0..Len(fields)] ==
                    IF i = 0 THEN WrOk(<<>>)
                    ELSE Then(w[i - 1], IgniteWrite_as(fields[i][2], x[fields[i][1]]))
            IN  w[Len(fields)]
      [] OTHER ->
            LET w[i \in 0..Len(x)] ==
                    IF i = 0 THEN WrOk(put_i32_le(Len(x)))
                    ELSE Then(w[i - 1], IgniteWrite_as(ItemOf(ty), x[i]))
            IN  w[Len(x)]

\* The write_property! lines of IgniteWrite for CacheConfiguration, in their
\* order: the code, the field and the field's type.
Properties ==
    << <<2, "atomicity_mode", "enum">>, <<3, "backups", "I32">>, <<1, "mode", "enum">>,
       <<5, "copy_on_read", "Bool">>, <<100, "data_region_name", "Option">>,
       <<405, "eager_ttl", "Bool">>, <<406, "statistics_enabled", "Bool">>,
       <<400, "group_name", "Option">>, <<402, "default_lock_timeout", "I64">>,
       <<403, "max_concurrent_async_operations", "I32">>, <<206, "max_query_iterators", "I32">>,
       <<0, "name", "String">>, <<101, "on_heap_cache_enabled", "Bool">>,
       <<404, "partition_loss_policy", "enum">>, <<202, "query_detail_metrics_size", "I32">>,
       <<201, "query_parallelism", "I32">>, <<6, "read_from_backup", "Bool">>,
       <<303, "rebalance_batch_size", "I32">>, <<304, "rebalance_batch_prefetch_count", "I64">>,
       <<301, "rebalance_delay", "I64">>, <<300, "rebalance_mode", "enum">>,
       <<305, "rebalance_order", "I32">>, <<306, "rebalance_throttle", "I64">>,
       <<302, "rebalance_timeout", "I64">>, <<205, "sql_escape_all", "Bool">>,
       <<204, "sql_index_inline_max_size", "I32">>, <<203, "sql_schema", "Option">>,
       <<4, "write_synchronization_mode", "enum">>,
       <<401, "cache_key_configurations", "Vec<CacheKeyConfiguration>">>,
       <<200, "query_entities", "Vec<QueryEntity>">> >>

\* A write_property! that leaves the count alone.
write_property_uncounted(st, code, written) ==
    IF ~st.bytes.ok THEN st
    ELSE [bytes |-> Then(Then(st.bytes, WrOk(put_i16_le(code))), written), count |-> st.count]

\* write_property!: the code, the property, and one more in the count; the
\* ? returns the property's error.
write_property(st, code, written) ==
    IF ~st.bytes.ok THEN st
    ELSE [bytes |-> Then(Then(st.bytes, WrOk(put_i16_le(code))), written),
          count |-> IF written.ok THEN st.count + 1 ELSE st.count]

\* IgniteWrite for CacheConfiguration: the properties go to a buffer of their
\* own, then the length, the count and that buffer are put.
CacheConfiguration_write(config) ==
    LET st[i \in 0..Len(Properties)] ==
            IF i = 0 THEN [bytes |-> WrOk(<<>>), count |-> 0]
            ELSE write_property(st[i - 1], Properties[i][1],
                                IgniteWrite_as(Properties[i][3], config[Properties[i][2]]))
        config_bytes == st[Len(Properties)]
    IN  IF config_bytes.bytes.ok
        THEN WrOk(put_i32_le(2 + Len(config_bytes.bytes.bytes)) \o put_i16_le(config_bytes.count)
                     \o config_bytes.bytes.bytes)
        ELSE WrErr(<<>>, config_bytes.bytes.err)

\* CacheConfiguration::default
CacheConfiguration_default(name) ==
    [atomicity_mode |-> 1, backups |-> 0, mode |-> 2, copy_on_read |-> TRUE,
     data_region_name |-> Null, eager_ttl |-> TRUE, statistics_enabled |-> FALSE,
     group_name |-> Null, default_lock_timeout |-> Zero64,
     max_concurrent_async_operations |-> 500, max_query_iterators |-> 1024, name |-> name,
     on_heap_cache_enabled |-> FALSE, partition_loss_policy |-> 4,
     query_detail_metrics_size |-> 0, query_parallelism |-> 1, read_from_backup |-> TRUE,
     rebalance_batch_size |-> 524288, rebalance_batch_prefetch_count |-> <<0, 0, 0, 3>>,
     rebalance_delay |-> Zero64, rebalance_mode |-> 1, rebalance_order |-> 0,
     rebalance_throttle |-> Zero64, rebalance_timeout |-> <<0, 0, 0, 10000>>,
     sql_escape_all |-> FALSE, sql_index_inline_max_size |-> -1, sql_schema |-> Null,
     write_synchronization_mode |-> 2, cache_key_configurations |-> <<>>,
     query_entities |-> <<>>]

\* Cache configurations to write: the default of a name; one with every optional
\* name set, a key configuration and a query entity with a field, an alias
\* and an index; one whose query field's default value has no write.
CacheConfigurations ==
    LET test == <<116, 101, 115, 116>>
        field(default) ==
            [name |-> Str_c, type_name |-> test, key_field |-> TRUE, not_null |-> FALSE,
             default_value |-> default]
        index == [index_name |-> Str_e, index_type |-> 0, inline_size |-> -1,
                  fields |-> << <<Str_c, TRUE>>, <<Str_u, FALSE>> >>]
        entity(default) ==
            [key_type_name |-> test, value_type_name |-> Str_u, table_name |-> <<>>,
             key_field_name |-> Val("String", Str_c), value_field_name |-> Null,
             fields |-> <<field(default), field(Null)>>, aliases |-> << <<Str_c, Str_p>> >>,
             indexes |-> <<index>>]
        key == [type_name |-> test, affinity_key_field_name |-> Str_c]
        full(default) ==
            [CacheConfiguration_default(<<128512, 97>>) EXCEPT
                !.atomicity_mode = 0, !.backups = 2, !.mode = 1, !.copy_on_read = FALSE,
                !.data_region_name = Val("String", Str_p), !.group_name = Val("String", <<>>),
                !.default_lock_timeout = <<0, 0, 1, 0>>, !.sql_schema = Val("String", test),
                !.rebalance_mode = 2, !.write_synchronization_mode = 0,
                !.cache_key_configurations = <<key, key>>,
                !.query_entities = <<entity(default)>>]
    IN  << CacheConfiguration_default(Str_c), CacheConfiguration_default(<<>>),
           full(I32(42)), full(CharAstral) >>

CodecInit ==
    /\ NetInit
    /\ wr = WrOk(<<>>) /\ rd = RdNone
    /\ \/ /\ cst = "start" /\ cbuf = <<>>
          /\ \E tail \in Tails :
                \/ \E i \in 1..Len(BinaryValues) :
                        job = Job("value", "binary.rs", "Value", BinaryValues[i], <<>>, tail)
                \/ \E i \in 1..Len(CodecValues) :
                        job = Job("value", "binary/mod.rs", "Value", CodecValues[i], <<>>, tail)
                \/ \E i \in 1..Len(BinaryOptions) :
                        job = Job("option", "binary.rs", BinaryOptions[i][1], BinaryOptions[i][2],
                                  <<>>, tail)
                \/ \E i \in 1..Len(CodecOptions) :
                        job = Job("option", "binary/mod.rs", CodecOptions[i][1], CodecOptions[i][2],
                                  <<>>, tail)
                \/ \E payload \in Payloads : job = Job("frame", "none", "none", Null, payload, tail)
                \/ \E name \in Names : job = Job("id", "none", "none", Null, name, tail)
                \/ \E i \in 1..Len(EntryReplies) :
                        job = Job("reader", "binary.rs", "get_all", EntryReplies[i],
                                  EntriesBytes(EntryReplies[i]), tail)
                \/ \E i \in 1..Len(CacheRequests) :
                        job = Job("request", "binary.rs", "none", CacheRequests[i], <<>>, tail)
                \/ \E i \in 1..Len(CacheConfigurations) :
                        job = Job("config", "binary/mod.rs", "CacheConfiguration",
                                  CacheConfigurations[i], <<>>, tail)
       \/ /\ cst = "buffer"
          /\ \E buf \in Buffers :
                /\ cbuf = buf
                /\ \/ \E i \in 1..Len(BinaryTypes) :
                        job = Job("buffer", "binary.rs", BinaryTypes[i], Null, buf, <<>>)
                   \/ \E i \in 1..Len(NullableTypes) :
                        job = Job("buffer", "binary/mod.rs", NullableTypes[i], Null, buf, <<>>)

\* value.write(bytes) of either codec.
Codec_write(codec, val) ==
    IF codec = "binary.rs" THEN BinaryWrite(val) ELSE IgniteWrite(val)

\* Option<T>::write of either codec.
Codec_write_option(codec, opt) ==
    IF codec = "binary.rs" THEN BinaryWrite_Option(opt) ELSE IgniteWrite_Option(opt)

\* Value::read of either codec.
Codec_read(codec, s) ==
    IF codec = "binary.rs" THEN Value_read(s) ELSE IgniteRead(s)

\* The read of an Option<T> of either codec.
Codec_read_option(codec, t, s) ==
    IF codec = "binary.rs" THEN (IF t = "Value" THEN Value_read(s) ELSE read_optional(t, s))
    ELSE IgniteRead_Option(t, s)

\* The read of a T of either codec.
Codec_read_typed(codec, t, s) ==
    IF codec = "binary.rs" THEN read(t, s) ELSE Nullable_read(t, s)

\* A Value is written to an empty buffer; other bytes follow it.
WriteValue ==
    /\ cst = "start" /\ job.kind = "value"
    /\ wr' = Codec_write(job.codec, job.val)
    /\ cbuf' = wr'.bytes \o job.tail
    /\ cst' = "written"
    /\ UNCHANGED <<job, rd>>
    /\ UNCHANGED <<netVars, overflow_checks, cacheVars>>

\* An Option is written to an empty buffer; other bytes follow it.
WriteOption ==
    /\ cst = "start" /\ job.kind = "option"
    /\ wr' = Codec_write_option(job.codec, job.val)
    /\ cbuf' = wr'.bytes \o job.tail
    /\ cst' = "written"
    /\ UNCHANGED <<job, rd>>
    /\ UNCHANGED <<netVars, overflow_checks, cacheVars>>

\* A Value is read from the buffer a write returned Ok for.
ReadValue ==
    /\ cst = "written" /\ job.kind = "value" /\ wr.ok
    /\ rd' = Codec_read(job.codec, cbuf)
    /\ cst' = "read"
    /\ UNCHANGED <<job, cbuf, wr>>
    /\ UNCHANGED <<netVars, overflow_checks, cacheVars>>

\* An Option is read from the buffer a write returned Ok for, or from a
\* buffer as it came.
ReadOption ==
    /\ \/ cst = "written" /\ job.kind = "option" /\ wr.ok
       \/ cst = "buffer"
    /\ rd' = Codec_read_option(job.codec, job.ty, cbuf)
    /\ cst' = "read"
    /\ UNCHANGED <<job, cbuf, wr>>
    /\ UNCHANGED <<netVars, overflow_checks, cacheVars>>

\* Tcp::send, the write of a frame; other bytes follow it on the stream.
FrameWrite ==
    /\ cst = "start" /\ job.kind = "frame"
    /\ cbuf' = send_write(job.buf) \o job.tail
    /\ cst' = "frame_written"
    /\ UNCHANGED <<job, wr, rd>>
    /\ UNCHANGED <<netVars, overflow_checks, cacheVars>>

\* Tcp::send, the read of a frame's length prefix.
FrameReadLen ==
    /\ cst = "frame_written"
    /\ Len(cbuf) >= 4
    /\ rd' = RdOk(Val("Len", send_read_len(Take(cbuf, 4))), Drop(cbuf, 4))
    /\ cst' = "frame_len"
    /\ UNCHANGED <<job, cbuf, wr>>
    /\ UNCHANGED <<netVars, overflow_checks, cacheVars>>

\* Tcp::send, the read of the bytes the prefix announced.
FrameReadBody ==
    /\ cst = "frame_len"
    /\ rd.v.v >= 0 /\ Len(rd.rest) >= rd.v.v
    /\ rd' = RdOk(Val("Bytes", Take(rd.rest, rd.v.v)), Drop(rd.rest, rd.v.v))
    /\ cst' = "frame_read"
    /\ UNCHANGED <<job, cbuf, wr>>
    /\ UNCHANGED <<netVars, overflow_checks, cacheVars>>

\* Cache::id on a handle of the name.
CacheId ==
    /\ cst = "start" /\ job.kind = "id"
    /\ LET r == Cache_id(job.buf, overflow_checks)
       IN  rd' = (IF r.ok THEN RdOk(Val("I32", r.id), <<>>) ELSE RdPanic)
    /\ cst' = "id"
    /\ UNCHANGED <<job, cbuf, wr>>
    /\ UNCHANGED <<netVars, overflow_checks, cacheVars>>

\* Tcp::execute on behalf of a Cache handle, up to the frame it writes to
\* the stream; other bytes were on the stream before it.
WriteRequest ==
    /\ cst = "start" /\ job.kind = "request"
    /\ wr' = execute_request(job.val, overflow_checks)
    /\ cbuf' = job.tail \o execute_send(wr')
    /\ cst' = "request"
    /\ UNCHANGED <<job, rd>>
    /\ UNCHANGED <<netVars, overflow_checks, cacheVars>>

\* The response reader of an operation on the rest of a reply.
ReadReply ==
    /\ cst = "start" /\ job.kind = "reader"
    /\ cbuf' = job.buf \o job.tail
    /\ rd' = response_reader(Op(job.ty, Str_c, Null, Null), cbuf')
    /\ cst' = "reply"
    /\ UNCHANGED <<job, wr>>
    /\ UNCHANGED <<netVars, overflow_checks, cacheVars>>

\* A CacheConfiguration is written to an empty buffer; other bytes follow it.
WriteConfiguration ==
    /\ cst = "start" /\ job.kind = "config"
    /\ wr' = CacheConfiguration_write(job.val)
    /\ cbuf' = wr'.bytes \o job.tail
    /\ cst' = "configuration"
    /\ UNCHANGED <<job, rd>>
    /\ UNCHANGED <<netVars, overflow_checks, cacheVars>>

CodecNext ==
    \/ WriteValue
    \/ WriteOption
    \/ ReadValue
    \/ ReadOption
    \/ FrameWrite
    \/ FrameReadLen
    \/ FrameReadBody
    \/ CacheId
    \/ WriteRequest
    \/ ReadReply
    \/ WriteConfiguration

SpecCodec == CodecInit /\ [][CodecNext]_vars

\* ------------------------------------------------- the connection's claims

IsOperation(op) == op.name \notin {"none", "handshake"}

\* The call under way or last returned is an operation whose reply send has
\* read in full.
ReplyRead == IsOperation(cur) /\ wrote # <<>> /\ recv = sent /\ pc \in {"ready", "panicked"}

\* ------------------------------------------------ a cache on the server
\* A third specification: the client of the tests, against a server that
\* keeps its caches as the protocol says: it answers the handshake with
\* success, and get, put, replace_if_equals and clear on what it holds, keys
\* and values being the bytes the requests carried.

\* The number of bytes of the encoded value a buffer begins with; all of it
\* when it begins with no type code.
ValueLen(b) ==
    CASE b = <<>> -> 0
      [] b[1] \in {1, 8} -> 2
      [] b[1] \in {2, 7} -> 3
      [] b[1] \in {3, 5} -> 5
      [] b[1] \in {4, 6} -> 9
      [] b[1] = 9 -> 5 + get_i32_le(Drop(b, 1))
      [] b[1] = 10 -> 17
      [] b[1] = NULL_FLAG -> 1
      [] OTHER -> Len(b)

RECURSIVE NamesReply(_)
\* The body of the server's answer to CacheNames for the names it has: each
\* name as a String value, in an order of the server's.
NamesReply(names) ==
    IF names = {} THEN <<>>
    ELSE LET name == CHOOSE n \in names : TRUE
         IN  BinaryWrite_String(name).bytes \o NamesReply(names \ {name})

\* The server reads one request frame, applies it and answers it.
ServerStore ==
    /\ ~eof
    /\ Len(c2s) >= 4
    /\ LET n == get_i32_le(c2s)
           payload == SubSeq(c2s, 5, 4 + n)
           code == payload[1] + 256 * payload[2]
           id == SubSeq(payload, 11, 14)
           body == Drop(payload, 15)
           key == Take(body, ValueLen(body))
           value == Take(Drop(body, Len(key)), ValueLen(Drop(body, Len(key))))
           new_value == Drop(body, Len(key) + Len(value))
           held == {e \in store : e[1] = id /\ e[2] = key}
           name == from_utf8(Drop(Drop(payload, 10), 5)).str
           destroyed == {c \in caches : put_i32_le(Cache_id(c, FALSE).id) = id}
           ok(rest) == Reply(Zero64, 0, rest, <<>>)
           failed == Reply(Zero64, 1001, as_bytes(Str_e), Str_e)
           reply == CASE srvSeen = 0 -> RawReply(<<1>>)
                      [] srvSeen > 0 /\ code = 1000 ->
                            ok(IF held = {} THEN <<NULL_FLAG>> ELSE (CHOOSE e \in held : TRUE)[3])
                      [] srvSeen > 0 /\ code = 1010 ->
                            ok(IF <<id, key, value>> \in store THEN <<1>> ELSE <<0>>)
                      [] srvSeen > 0 /\ code = 1050 ->
                            ok(put_i32_le(Cardinality(caches)) \o NamesReply(caches))
                      [] srvSeen > 0 /\ code = 1051 -> IF name \in caches THEN failed ELSE ok(<<>>)
                      [] srvSeen > 0 /\ code = DESTROY_CACHE ->
                            IF destroyed = {} THEN failed ELSE ok(<<>>)
                      [] OTHER -> ok(<<>>)
       IN  /\ Len(c2s) >= 4 + n
           /\ c2s' = Drop(c2s, 4 + n)
           /\ s2c' = s2c \o Tagged(put_i32_le(Len(reply.raw)) \o reply.raw, srvSeen + 1)
           /\ srv' = reply
           /\ store' = CASE srvSeen = 0 -> store
                         [] srvSeen > 0 /\ code = 1001 -> (store \ held) \cup {<<id, key, value>>}
                         [] srvSeen > 0 /\ code = 1010 ->
                               IF <<id, key, value>> \in store
                               THEN (store \ held) \cup {<<id, key, new_value>>} ELSE store
                         [] srvSeen > 0 /\ code \in {1013, DESTROY_CACHE} ->
                               {e \in store : e[1] # id}
                         [] OTHER -> store
           /\ caches' = CASE srvSeen > 0 /\ code = 1051 -> caches \cup {name}
                          [] srvSeen > 0 /\ code = DESTROY_CACHE -> caches \ destroyed
                          [] OTHER -> caches
           /\ log' = (IF srvSeen = 0 THEN log ELSE Append(log, cur))
    /\ srvSeen' = srvSeen + 1
    /\ UNCHANGED <<pc, eof, need, cur, wrote, got, gotTags, result, prevKind, calls, sent,
                   recv, inflight, hs>>
    /\ UNCHANGED <<codecVars, overflow_checks, handles>>

\* Keys and values of each scalar type the tests put and get: an existent
\* key, a non-existent key and two values.
TestValues ==
    LET of(t, k, k2, v, w) == [k |-> Val(t, k), k2 |-> Val(t, k2), v |-> Val(t, v), w |-> Val(t, w)]
    IN  << of("I8", 42, 43, 1, 2), of("I16", 42, 300, 1, -2), of("I32", 42, 43, 1, 2),
           of("I64", Word(42), Word(43), Word(1), <<1, 0, 0, 2>>),
           of("F32", <<16936, 0>>, <<16940, 0>>, <<16256, 0>>, <<16384, 0>>),
           of("F64", <<16453, 0, 0, 0>>, <<16453, 32768, 0, 0>>, <<16368, 0, 0, 0>>,
              <<16384, 0, 0, 0>>),
           of("Bool", TRUE, FALSE, TRUE, FALSE),
           of("String", <<52, 50>>, <<52, 51>>, <<118>>, <<>>),
           of("Uuid", Uuid_a, Uuid_b, Uuid_a, Uuid_b) >>

\* The calls of the tests on the handle of the cache "c", for the type of
\* number t.
CacheCalls(t) ==
    LET x == TestValues[t]
    IN  << Op("clear", Str_c, Null, Null),
           Op("get", Str_c, x.k, Null), Op("get", Str_c, x.k2, Null),
           Op("put", Str_c, x.k, x.v), Op("put", Str_c, x.k, x.w),
           Op("replace_if_equals", Str_c, x.k, <<x.v, x.w>>),
           Op("replace_if_equals", Str_c, x.k, <<x.w, x.v>>) >>

\* The calls of the tests, type by type.
TestCalls ==
    << CacheCalls(1), CacheCalls(2), CacheCalls(3), CacheCalls(4), CacheCalls(5),
       CacheCalls(6), CacheCalls(7), CacheCalls(8), CacheCalls(9) >>

\* A call of the tests: one test keeps to the keys and values of one type.
CacheCall(op) ==
    /\ \A i \in 1..Len(log) :
            /\ log[i].name \in CacheOps
            /\ log[i].name # "clear" /\ op.name # "clear" => log[i].key.t = op.key.t
    /\ Execute(op)

\* The calls of the tests of the caches' names: cache_names, create_cache
\* and destroy, of two names the server has no cache for at first and of the
\* one it has.
LifecycleCalls ==
    << Op("cache_names", <<>>, Null, Null),
       Op("create_cache", Str_e, Null, Null), Op("create_cache", Str_u, Null, Null),
       Op("create_cache", Str_c, Null, Null),
       Op("destroy", Str_e, Null, Null), Op("destroy", Str_u, Null, Null),
       Op("destroy", Str_c, Null, Null) >>

\* A call of those tests.
LifecycleCall(op) ==
    /\ \A i \in 1..Len(log) : log[i].name \notin CacheOps
    /\ Execute(op)

CacheNext ==
    \/ Start(Configurations[4])
    \/ ClientCache(Str_c)
    \/ \E t \in 1..Len(TestCalls), i \in 1..7 : CacheCall(TestCalls[t][i])
    \/ \E i \in 1..Len(LifecycleCalls) : LifecycleCall(LifecycleCalls[i])
    \/ ReadLen
    \/ ReadBody
    \/ ServerStore

SpecCache == Init /\ [][CacheNext]_vars

\* C1: at most one request is in flight: a request frame is written only
\* when the reply of every frame written before it has been read in full or
\* its call has returned an error, and the client is between two calls.
C1_OneRequestInFlight ==
    [][sent' = sent + 1 => inflight = 0 /\ inflight' = 1 /\ pc \in {"new", "ready"}
                             /\ s2c = <<>>]_vars

\* The second operation's frame is on the stream once the first one's reply,
\* and the handshake's, have been read in full.
C1_Witness == calls = 2 /\ sent = 3 /\ recv = 2 /\ inflight = 1 /\ pc = "op_len"

\* C2: no operation frame is written before the handshake request was sent
\* and answered with success byte 1; when the handshake is rejected or fails,
\* Client::start returns the error, there is no Client, and no operation frame
\* is ever sent.
C2_HandshakeBeforeOperations ==
    /\ (sent >= 2 \/ calls >= 1) => Len(hs.reply) >= 1 /\ hs.reply[1] = 1 /\ hs.r.k = "ok"
    /\ ((Len(hs.reply) >= 1 /\ hs.reply[1] # 1) \/ hs.r.k = "err")
          => /\ pc = "failed"
             /\ hs.r.k = "err"
             /\ SameOutcome(result, hs.r)
             /\ calls = 0 /\ sent <= 1

\* C3: after an execute that returned a ServerStatus error or a codec error
\* raised on the reply body, the whole reply frame has been consumed and the
\* stream stands at a frame boundary; the next operation's reply, once read,
\* is the payload the server sent for that operation and nothing else.
C3_UsableAfterError ==
    /\ (ReplyRead /\ Kind(result) \in {"Ignite", "Serde", "Encoding"})
          => s2c = <<>> /\ c2s = <<>> /\ pc = "ready" /\ got = srv.raw /\ gotTags \subseteq {sent}
    /\ (ReplyRead /\ prevKind \in {"Ignite", "Serde", "Encoding"})
          => srvSeen = sent /\ got = srv.raw /\ gotTags \subseteq {sent}

\* The second operation has returned a value decoded from its own reply after
\* the first one returned the server's status error.
C3_Witness ==
    /\ ReplyRead /\ calls = 2 /\ prevKind = "Ignite"
    /\ result.k = "ok" /\ result.read /\ got = srv.raw /\ Len(got) > 12

\* C4: when the request id at the start of the reply is not the 0 that was
\* sent, execute returns an error of the codec's kind and decodes neither the
\* status nor the body.
C4_MismatchIsCodecError ==
    (ReplyRead /\ Len(got) >= 8 /\ get_i64_le(got) # Zero64)
        => result.k = "err" /\ result.err.kind \in {"Serde", "Encoding"} /\ ~result.read

\* The reply read is one the server meant as a reply: request id 0, a status
\* and the rest.
Decoded == ReplyRead /\ got = srv.raw /\ srv.wf /\ srv.id = Zero64

\* C5 as stated: status 0 gives exactly what the response reader returns on
\* the rest of the reply; any other status never calls the reader and gives
\* the ServerStatus error of that status.
C5_StatusDecides ==
    /\ (Decoded /\ srv.status = 0)
          => /\ result.read
             /\ SameOutcome(result, Client_result(cur, ReaderReturned(response_reader(cur, srv.rest))))
    /\ (Decoded /\ srv.status # 0)
          => /\ ~result.read
             /\ Kind(result) = "Ignite"
             /\ result.err.code = srv.status

\* C5: status 0 gives exactly what the response reader returns on the rest of
\* the reply; any other status never calls the reader and gives the
\* ServerStatus error of that status with the rest as its message when the
\* rest is UTF-8, and an error of kind Encoding when it is not.
C5_StatusDecidesUtf8 ==
    /\ (Decoded /\ srv.status = 0)
          => /\ result.read
             /\ SameOutcome(result, Client_result(cur, ReaderReturned(response_reader(cur, srv.rest))))
    /\ (Decoded /\ srv.status # 0)
          => /\ ~result.read
             /\ IF as_bytes(srv.msg) = srv.rest
                THEN SameOutcome(result, Err(Error_new("Ignite", srv.status, srv.msg, <<>>)))
                ELSE SameOutcome(result, Err(FromUtf8Error))

\* An operation has returned the server's status 7 with its message "e".
C5_Witness ==
    /\ Decoded /\ srv.status = 7 /\ srv.msg = Str_e
    /\ Kind(result) = "Ignite" /\ result.err.code = 7 /\ result.err.msg = Str_e

\* C6: when the request writer of an operation fails, execute returns that
\* error, writes no byte of the request to the stream and reads no reply.
C6_WriterFailureSendsNothing ==
    [][(calls' = calls + 1 /\ ~execute_request(cur', overflow_checks).ok
            /\ execute_request(cur', overflow_checks) # WrPanic)
          => /\ SameOutcome(result', Err(execute_request(cur', overflow_checks).err))
             /\ c2s' = c2s /\ wrote' = <<>> /\ sent' = sent
             /\ s2c' = s2c /\ got' = <<>> /\ recv' = recv
             /\ pc' = "ready"]_vars

\* A put whose value is a Char outside the Basic Multilingual Plane has
\* returned the writer's error.
C6_Witness ==
    /\ calls >= 1 /\ cur.name = "put" /\ cur.value.t = "Char" /\ cur.value.v > 65535
    /\ Kind(result) = "Serde" /\ wrote = <<>> /\ got = <<>> /\ pc = "ready"

\* C8: when the stream ends before the four bytes of a reply's length prefix
\* or before the payload bytes the prefix announces have arrived, the call
\* returns an error of kind Network.
C8_TruncatedIsNetwork ==
    (wrote # <<>> /\ srvSeen = sent /\ srv.cut >= 0 /\ pc \in {"ready", "failed", "panicked"})
        => Kind(result) = "Network" /\ pc # "panicked" /\ s2c = <<>>

\* An operation's reply ended after its length prefix and one byte of the
\* payload, and the operation returned.
C8_Witness ==
    /\ IsOperation(cur) /\ wrote # <<>> /\ srvSeen = sent /\ srv.cut = 5 /\ pc = "ready"
    /\ Kind(result) = "Network"

\* ------------------------------------------------------ the codec's claims

\* Outcomes of reads are compared variant first.
SameRead(a, b) == a.k = b.k /\ SameValue(a.v, b.v) /\ a.rest = b.rest /\ a.err = b.err

\* C7: a frame is a four-byte little-endian length equal to the payload's
\* byte count, then exactly the payload; the reader takes four bytes as the
\* length N, then N bytes, which are the payload byte for byte, and the
\* stream is left right after the frame.
C7_FramingRoundTrip ==
    /\ cst = "frame_written"
          => /\ Len(cbuf) = 4 + Len(job.buf) + Len(job.tail)
             /\ cbuf[1] + 256 * cbuf[2] + 65536 * cbuf[3] + 16777216 * cbuf[4] = Len(job.buf)
             /\ SubSeq(cbuf, 5, 4 + Len(job.buf)) = job.buf
             /\ Drop(cbuf, 4 + Len(job.buf)) = job.tail
    /\ cst = "frame_len" => rd.v.v = Len(job.buf) /\ rd.rest = job.buf \o job.tail
    /\ cst = "frame_read" => rd.v.v = job.buf /\ rd.rest = job.tail

\* A payload of 300 bytes has been read back, the bytes after it left on the
\* stream.
C7_Witness ==
    /\ cst = "frame_read" /\ Len(job.buf) = 300 /\ job.tail # <<>>
    /\ rd.v.v = job.buf /\ rd.rest = job.tail

\* C9: for every non-null Value the encoder accepts, decoding the bytes the
\* encoder produced yields exactly that Value.
C9_CodecRoundTrip ==
    (cst = "read" /\ job.kind = "value")
        => rd.k = "ok" /\ SameValue(rd.v, job.val) /\ rd.rest = job.tail

\* C10: an absent Option is written as the single byte 101; an Option read
\* from a buffer whose next byte is 101 is absent and one byte is consumed;
\* read from a buffer whose next byte is not 101, it is what the typed
\* decoder makes of that same buffer, nothing having been consumed.
C10_NullLaw ==
    /\ (job.kind = "option" /\ cst \in {"written", "read"} /\ IsNull(job.val))
          => wr.ok /\ wr.bytes = <<101>> /\ cbuf = <<101>> \o job.tail
    /\ (job.kind \in {"option", "buffer"} /\ cst = "read" /\ cbuf # <<>> /\ cbuf[1] = 101)
          => rd.k = "ok" /\ IsNull(rd.v) /\ rd.rest = Drop(cbuf, 1)
    /\ (job.kind \in {"option", "buffer"} /\ cst = "read" /\ cbuf # <<>> /\ cbuf[1] # 101)
          => IF job.ty # "Value" \/ job.codec = "binary/mod.rs"
             THEN SameRead(rd, Codec_read_typed(job.codec, job.ty, cbuf))
             ELSE cbuf[1] \in 1..10 => SameRead(rd, read(Scalars[cbuf[1]], cbuf))

\* An absent Option<String> of binary/mod.rs has been written and read back
\* with other bytes after it.
C10_Witness ==
    /\ job.kind = "option" /\ job.codec = "binary/mod.rs" /\ job.ty = "String" /\ IsNull(job.val)
    /\ cst = "read" /\ wr.bytes = <<101>> /\ job.tail # <<>>
    /\ rd.k = "ok" /\ IsNull(rd.v) /\ rd.rest = job.tail

\* C11: the encoding of a scalar Value the encoder accepts begins with the
\* type code of its type (i8 1, i16 2, i32 3, i64 4, f32 5, f64 6, char
\* 7, bool 8, String 9, Uuid 10), and the type code is there once: what
\* follows it is the payload alone, of the payload's size.
C11_TypeCodePrefix ==
    (job.kind = "value" /\ cst \in {"written", "read"} /\ wr.ok
        /\ job.val.t \in {Scalars[c] : c \in 1..10})
        => LET t == job.val.t
               code == [I8 |-> 1, I16 |-> 2, I32 |-> 3, I64 |-> 4, F32 |-> 5, F64 |-> 6,
                        Char |-> 7, Bool |-> 8, String |-> 9, Uuid |-> 10][t]
               size == IF t = "String" THEN 4 + Len(as_bytes(job.val.v))
                       ELSE [I8 |-> 1, I16 |-> 2, I32 |-> 4, I64 |-> 8, F32 |-> 4, F64 |-> 8,
                             Char |-> 2, Bool |-> 1, Uuid |-> 16][t]
           IN  /\ wr.bytes[1] = code
               /\ Len(wr.bytes) = 1 + size
               /\ cbuf = wr.bytes \o job.tail

\* A Uuid has been written by binary/mod.rs: 10, then its sixteen bytes.
C11_Witness ==
    /\ job.kind = "value" /\ cst = "written" /\ job.codec = "binary/mod.rs" /\ wr.ok
    /\ job.val.t = "Uuid" /\ wr.bytes[1] = 10 /\ Len(wr.bytes) = 17

\* C12: writing a Char whose code point needs a UTF-16 surrogate pair returns
\* the codec's error and appends nothing to the buffer, neither a type code
\* nor a payload byte.
C12_UnsupportedCharRejected ==
    (job.kind = "value" /\ cst = "written" /\ job.val.t = "Char" /\ len_utf16(job.val.v) = 2)
        => ~wr.ok /\ wr.err.kind = "Serde" /\ wr.bytes = <<>> /\ cbuf = job.tail

\* C13: for every cache name Cache::id returns, without failing, the low 32
\* bits as a signed i32 of h, where h = 0 and then h = 31 * h + codepoint for
\* each character, wrapping; id("") = 0, id("a") = 97, id("abc") = 96354; the
\* id is the same whatever else the handle and the build are.  The low 32
\* bits of the wrapping h are h computed modulo 2^32, here on two 16-bit
\* halves.
C13_CacheId ==
    (job.kind = "id" /\ cst = "id")
        => LET name == job.buf
               h[i \in 0..Len(name)] ==
                   IF i = 0 THEN <<0, 0>>
                   ELSE LET lo == 31 * h[i - 1][2] + (name[i] % 65536)
                            hi == 31 * h[i - 1][1] + (name[i] \div 65536) + (lo \div 65536)
                        IN  <<hi % 65536, lo % 65536>>
               low32 == h[Len(name)]
               id == (IF low32[1] >= 32768 THEN low32[1] - 65536 ELSE low32[1]) * 65536 + low32[2]
           IN  /\ rd.k = "ok"
               /\ rd.v.v = id
               /\ name = <<>> => rd.v.v = 0
               /\ name = <<97>> => rd.v.v = 97
               /\ name = <<97, 98, 99>> => rd.v.v = 96354

\* C14: the handshake request payload is byte 1, the client version 1.1.0 as
\* three 16-bit little-endian words, byte 2, and then credentials exactly when
\* a username is configured: the username as an encoded String (9, the byte
\* count as four little-endian bytes, the UTF-8 bytes), then the password as
\* an encoded String, or the single byte 101 (0x65) when there is no password;
\* without a username nothing follows byte 2, password or not.
C14_HandshakeRequest ==
    (cur.name = "handshake" /\ wrote # <<>>)
        => LET string(str) == <<9, Len(as_bytes(str)) % 256, Len(as_bytes(str)) \div 256, 0, 0>>
                                 \o as_bytes(str)
               credentials ==
                   IF IsNull(cur.key) THEN <<>>
                   ELSE string(cur.key.v)
                           \o (IF IsNull(cur.value) THEN <<101>> ELSE string(cur.value.v))
               payload == <<1, 1, 0, 1, 0, 0, 0, 2>> \o credentials
           IN  /\ Drop(wrote, 4) = payload
               /\ get_i32_le(wrote) = Len(payload)

\* The handshake of a configuration with a username and no password has been
\* written: the username, then 0x65.
C14_Witness ==
    /\ cur.name = "handshake" /\ ~IsNull(cur.key) /\ IsNull(cur.value)
    /\ Drop(wrote, 4) = <<1, 1, 0, 1, 0, 0, 0, 2, 9, 1, 0, 0, 0, 117, 101>>

\* C15: a handshake reply whose first byte is 1 makes the handshake succeed;
\* for every other first byte the handshake returns an error of kind
\* Handshake carrying the server version read from the reply (three 16-bit
\* little-endian words after the first byte) and the client version 1.1.0,
\* whatever follows the version.
C15_HandshakeReply ==
    Len(hs.reply) >= 1
        => IF hs.reply[1] = 1 THEN hs.r.k = "ok" /\ pc # "failed"
           ELSE /\ Kind(hs.r) = "Handshake"
                /\ Len(hs.reply) >= 7
                /\ hs.r.err.ver = <<hs.reply[2] + 256 * hs.reply[3], hs.reply[4] + 256 * hs.reply[5],
                                    hs.reply[6] + 256 * hs.reply[7], 1, 1, 0>>

\* C16: the request payload a cache operation sends is its operation code,
\* one of 1000 to 1020, as a 16-bit little-endian word, the 64-bit request id
\* 0, the cache id of the handle's name as a 32-bit little-endian word, one
\* flags byte 0, and then the body its request writer wrote; the frame's
\* length prefix counts exactly these bytes.  The ids of "c", "test" and of
\* thirteen letters a are 99, 3556498 and -2064136287.
C16_CacheRequestLayout ==
    (job.kind = "request" /\ cst = "request" /\ wr.ok)
        => LET frame == Drop(cbuf, Len(job.tail))
               payload == Drop(frame, 4)
               code == payload[1] + 256 * payload[2]
               id == IF job.val.cache = <<99>> THEN <<99, 0, 0, 0>>
                     ELSE IF job.val.cache = <<116, 101, 115, 116>> THEN <<146, 68, 54, 0>>
                     ELSE <<161, 199, 247, 132>>
               body == request_writer(job.val)
           IN  /\ Take(cbuf, Len(job.tail)) = job.tail
               /\ frame[1] + 256 * frame[2] + 65536 * frame[3] = Len(payload) /\ frame[4] = 0
               /\ code \in 1000..1020
               /\ CacheOpNames[code - 999] = job.val.name
               /\ SubSeq(payload, 3, 10) = <<0, 0, 0, 0, 0, 0, 0, 0>>
               /\ SubSeq(payload, 11, 14) = id
               /\ payload[15] = 0
               /\ body.ok /\ Drop(payload, 15) = body.bytes

\* A replace_if_equals on a handle named "c" has written its frame: 1010, the
\* request id, the cache id 99, the flags byte, then key, old and new value.
C16_Witness ==
    /\ job.kind = "request" /\ cst = "request" /\ wr.ok /\ job.val.name = "replace_if_equals"
    /\ Drop(cbuf, Len(job.tail) + 4)
         = <<242, 3, 0, 0, 0, 0, 0, 0, 0, 0, 99, 0, 0, 0, 0>>
              \o <<3, 42, 0, 0, 0>> \o <<9, 1, 0, 0, 0, 99>> \o <<3, 2, 0, 0, 0>>

\* C17: get_all reads the reply as a count and that many (key, nullable
\* value) pairs and returns the entries in the order of the reply; an entry
\* whose key is null is left out, its value is consumed all the same, and the
\* entries after it are returned as they are in the reply.
C17_GetAllEntries ==
    (job.kind = "reader" /\ job.ty = "get_all" /\ cst = "reply")
        => LET kept == SelectSeq(job.val, LAMBDA e : ~IsNull(e[1]))
           IN  /\ rd.k = "ok"
               /\ rd.rest = job.tail
               /\ Len(rd.v.v) = Len(kept)
               /\ \A i \in 1..Len(kept) :
                     SameValue(rd.v.v[i][1], kept[i][1]) /\ SameValue(rd.v.v[i][2], kept[i][2])

\* A reply of three entries, the second with a null key, has been read:
\* the first and the third are returned, nothing of the reply is left.
C17_Witness ==
    /\ job.kind = "reader" /\ cst = "reply" /\ job.tail # <<>>
    /\ job.buf = <<3, 0, 0, 0, 3, 1, 0, 0, 0, 3, 1, 0, 0, 0, 101, 3, 2, 0, 0, 0,
                   3, 3, 0, 0, 0, 9, 1, 0, 0, 0, 99>>
    /\ rd.k = "ok" /\ Len(rd.v.v) = 2 /\ rd.v.v[2][1].v = 3 /\ rd.v.v[2][2].t = "String"
    /\ rd.rest = job.tail

\* ---------------------------------------------------- the handles' claims

\* C18: Client::cache(name) returns a Cache handle without contacting the
\* server: between two calls a handle appears, for a name of an existing cache
\* or not, with no byte written to the stream and none read from it.
C18_HandleWithoutContact ==
    [][(pc = "ready" /\ handles' # handles)
          => /\ c2s' = c2s /\ wrote' = wrote /\ sent' = sent /\ inflight' = inflight
             /\ s2c' = s2c /\ got' = got /\ recv' = recv
             /\ srvSeen' = srvSeen /\ store' = store
             /\ pc' = "ready" /\ result' = result]_vars

\* Handles for two names exist, the server has seen the handshake alone and
\* holds no cache.
C18_Witness ==
    /\ handles = {Str_c, Str_long} /\ pc = "ready"
    /\ sent = 1 /\ recv = 1 /\ srvSeen = 1 /\ calls = 0 /\ c2s = <<>> /\ store = {}

\* ------------------------------------------------------ the cache's claims

\* What the cache holds for key k after the first n operations the server
\* applied, the cache being empty at first: a put makes it the value put, a
\* replace_if_equals the new value when it was the old one, a clear nothing.
Holding(n, k) ==
    LET h[i \in 0..n] ==
            IF i = 0 THEN Null
            ELSE CASE log[i].name = "clear" -> Null
                   [] log[i].name = "put" /\ SameValue(log[i].key, k) -> log[i].value
                   [] log[i].name = "replace_if_equals" /\ SameValue(log[i].key, k)
                        /\ SameValue(h[i - 1], log[i].value[1]) -> log[i].value[2]
                   [] OTHER -> h[i - 1]
    IN  h[n]

\* C19: on a connected, cleared cache a put succeeds, and a get returns
\* absent for a key that no put has set since the cache was empty, and
\* present(v), v equal to the value put, for a key whose last put was of v;
\* for keys and values of i8, i16, i32, i64, f32, f64, bool, String and Uuid.
C19_PutThenGet ==
    /\ (ReplyRead /\ cur.name \in {"put", "clear"}) => result.k = "ok"
    /\ (ReplyRead /\ cur.name = "get"
            /\ \A i \in 1..Len(log) : log[i].name # "replace_if_equals")
          => /\ log[Len(log)].name = "get" /\ SameValue(log[Len(log)].key, cur.key)
             /\ result.k = "ok"
             /\ SameValue(result.v, Holding(Len(log) - 1, cur.key))
             /\ (\A i \in 1..Len(log) : log[i].name # "put") => IsNull(result.v)

\* A get of a Uuid key has returned the Uuid value the put before it set.
C19_Witness ==
    /\ ReplyRead /\ cur.name = "get" /\ cur.key.t = "Uuid" /\ Len(log) = 2
    /\ log[1].name = "put" /\ SameValue(log[1].key, cur.key)
    /\ result.k = "ok" /\ result.v.t = "Uuid" /\ result.v.v = log[1].value.v

\* C20: replace_if_equals(k, old, new) returns true exactly when the cache
\* holds old for k, and the get of k after it then returns present(new); when
\* k is absent or holds another value it returns false, and the get of k
\* after it returns what the cache held before, or absent.
C20_ReplaceIfEquals ==
    /\ (ReplyRead /\ cur.name = "replace_if_equals")
          => /\ result.k = "ok" /\ result.v.t = "Bool"
             /\ result.v.v = SameValue(Holding(Len(log) - 1, cur.key), cur.value[1])
    /\ (ReplyRead /\ cur.name = "get" /\ Len(log) >= 2
            /\ log[Len(log) - 1].name = "replace_if_equals"
            /\ SameValue(log[Len(log) - 1].key, cur.key))
          => LET before == Holding(Len(log) - 2, cur.key)
                 replace == log[Len(log) - 1]
             IN  /\ result.k = "ok"
                 /\ SameValue(result.v, IF SameValue(before, replace.value[1])
                                        THEN replace.value[2] ELSE before)

\* After put(42, 1) and a replace_if_equals(42, 1, 2), get(42) has returned
\* present(2).
C20_Witness ==
    /\ ReplyRead /\ cur.name = "get" /\ Len(log) = 3
    /\ log[1].name = "put" /\ log[2].name = "replace_if_equals"
    /\ SameValue(log[1].key, I32(42)) /\ SameValue(log[1].value, I32(1))
    /\ SameValue(log[2].value[1], I32(1)) /\ SameValue(log[2].value[2], I32(2))
    /\ SameValue(cur.key, I32(42)) /\ result.k = "ok" /\ SameValue(result.v, I32(2))

\* A replace_if_equals on a key the cache holds another value for has
\* returned false.
C20_WitnessFalse ==
    /\ ReplyRead /\ cur.name = "replace_if_equals" /\ Len(log) = 2 /\ log[1].name = "put"
    /\ ~SameValue(log[1].value, cur.value[1]) /\ result.v.t = "Bool" /\ result.v.v = FALSE

\* The names of the server's caches after the first n operations it applied:
\* a create_cache adds its name, a destroy takes its name away.
NamesAfter(n) ==
    LET h[i \in 0..n] ==
            IF i = 0 THEN {Str_c}
            ELSE CASE log[i].name = "create_cache" -> h[i - 1] \cup {log[i].cache}
                   [] log[i].name = "destroy" -> h[i - 1] \ {log[i].cache}
                   [] OTHER -> h[i - 1]
    IN  h[n]

\* C21: for a name k that is not among the names N0 of the caches,
\* create_cache(k) succeeds and cache_names then returns N0 and k; a
\* create_cache of a name that is among them returns a server status error
\* and leaves the names as they were; a destroy of k succeeds, and
\* cache_names after it returns N0 again: cache_names always returns the
\* names the server began with, plus those created, less those destroyed.
C21_CacheLifecycle ==
    /\ (ReplyRead /\ cur.name = "create_cache")
          => LET N0 == NamesAfter(Len(log) - 1)
             IN  IF cur.cache \notin N0
                 THEN result.k = "ok" /\ caches = N0 \cup {cur.cache}
                 ELSE Kind(result) = "Ignite" /\ result.err.code # 0 /\ caches = N0
    /\ (ReplyRead /\ cur.name = "destroy" /\ cur.cache \in NamesAfter(Len(log) - 1))
          => result.k = "ok" /\ caches = NamesAfter(Len(log) - 1) \ {cur.cache}
    /\ (ReplyRead /\ cur.name = "cache_names")
          => /\ result.k = "ok" /\ result.v.t = "Names"
             /\ {result.v.v[i] : i \in 1..Len(result.v.v)} = NamesAfter(Len(log))
             /\ Len(result.v.v) = Cardinality(NamesAfter(Len(log)))

\* cache_names has returned the one name the server began with, after a
\* create_cache of another name and the destroy of that cache.
C21_Witness ==
    /\ ReplyRead /\ cur.name = "cache_names" /\ Len(log) = 3
    /\ log[1].name = "create_cache" /\ log[1].cache = Str_e
    /\ log[2].name = "destroy" /\ log[2].cache = Str_e
    /\ result.k = "ok" /\ result.v.t = "Names" /\ result.v.v = <<Str_c>>

\* A second create_cache of the same name has returned the server's status
\* error.
C21_WitnessSecond ==
    /\ ReplyRead /\ cur.name = "create_cache" /\ Len(log) = 2
    /\ log[1].name = "create_cache" /\ log[1].cache = cur.cache
    /\ Kind(result) = "Ignite" /\ caches = {Str_c, cur.cache}


\* C22: a Char of the Basic Multilingual Plane is written as the type code 7
\* and its UTF-16 code unit, most significant byte first, and the read of
\* what was written takes the two bytes in that order and returns the Char
\* that was written, leaving what follows it.
C22_CharByteOrder ==
    (job.kind = "value" /\ job.val.t = "Char" /\ len_utf16(job.val.v) = 1)
        => /\ cst \in {"written", "read"}
                => /\ wr.ok
                   /\ wr.bytes = <<7, job.val.v \div 256, job.val.v % 256>>
           /\ cst = "read"
                => rd.k = "ok" /\ rd.v.t = "Char" /\ rd.v.v = job.val.v /\ rd.rest = job.tail


\* C23: a Uuid is written as the type code 10, then its first 8 raw bytes as
\* a big-endian 64-bit word written little-endian, then its last 8 raw bytes
\* the same way; the read of what was written returns the same 16 raw bytes
\* and leaves what follows them.
C23_UuidLayout ==
    (job.kind = "value" /\ job.val.t = "Uuid")
        => /\ cst \in {"written", "read"}
                => /\ wr.ok
                   /\ wr.bytes = <<10>> \o [i \in 1..8 |-> job.val.v[9 - i]]
                                        \o [i \in 1..8 |-> job.val.v[17 - i]]
           /\ cst = "read"
                => rd.k = "ok" /\ rd.v.t = "Uuid" /\ rd.v.v = job.val.v /\ rd.rest = job.tail

\* A Uuid whose bytes all have the top bit set has been written by
\* binary/mod.rs and read back, other bytes following it.
C23_Witness ==
    /\ cst = "read" /\ job.kind = "value" /\ job.codec = "binary/mod.rs"
    /\ job.val.t = "Uuid" /\ job.val.v = Uuid_b /\ job.tail = <<3, 7, 0, 0, 0>>
    /\ rd.k = "ok" /\ rd.rest = job.tail /\ Len(wr.bytes) = 17


\* C24: a Vec, LinkedList, HashSet or LinkedHashSet is written as the type
\* code 24, its length and the sub-kind 1, 2, 3 or 4, then its elements, and
\* is read back as it was written; from the type code 24, a length and a
\* sub-kind, the read returns the collection of that sub-kind (a Vec for -1,
\* 0 and 5) with the declared number of elements, and a codec error for any
\* other sub-kind.
C24_CollectionDecode ==
    /\ (job.kind = "value" /\ job.codec = "binary/mod.rs"
            /\ job.val.t \in {Collections[c] : c \in 1..4})
          => /\ cst \in {"written", "read"}
                  => /\ wr.ok
                     /\ Take(wr.bytes, 6) =
                            <<24>> \o put_i32_le(Len(job.val.v))
                                   \o <<CHOOSE c \in 1..4 : Collections[c] = job.val.t>>
             /\ cst = "read"
                  => rd.k = "ok" /\ SameValue(rd.v, job.val) /\ rd.rest = job.tail
    /\ (job.kind = "buffer" /\ job.codec = "binary/mod.rs" /\ job.ty = "Value"
            /\ Len(job.buf) >= 6 /\ job.buf[1] = 24 /\ cst = "read")
          => LET len == get_i32_le(Drop(job.buf, 1))
                 sub == get_i8(Drop(job.buf, 5))
             IN  IF sub \in {-1, 0, 1, 2, 3, 4, 5}
                 THEN /\ rd.k = "ok"
                      /\ rd.v.t = (IF sub \in 2..4 THEN Collections[sub] ELSE "Vec")
                      /\ Len(rd.v.v) = len
                 ELSE rd.k = "err" /\ rd.err.kind \in {"Serde", "Encoding"}


\* C25: an array of scalars is written as its array type code, the 32-bit
\* little-endian count of its elements and then the payload of each element
\* with no type code before it, for every element type, String, Uuid and
\* Timestamp among them; the read of what was written returns the array.
C25_ArrayEncoding ==
    (job.kind = "value" /\ job.codec = "binary/mod.rs" /\ job.val.t \in ArrayNames)
        => LET elem == ElemOf(job.val.t)
               raw(x) == IF elem \in {"String", "Uuid", "Timestamp"}
                         THEN Drop(IgniteWrite_T(elem, x).bytes, 1)
                         ELSE IgniteWrite_T(elem, x).bytes
               payloads[i \in 0..Len(job.val.v)] ==
                   IF i = 0 THEN <<>> ELSE payloads[i - 1] \o raw(job.val.v[i])
           IN  /\ (cst \in {"written", "read"} /\ wr.ok)
                    => wr.bytes = <<ArrayCode(job.val.t)>> \o put_i32_le(Len(job.val.v))
                                      \o payloads[Len(job.val.v)]
               /\ cst = "read"
                    => rd.k = "ok" /\ SameValue(rd.v, job.val) /\ rd.rest = job.tail


\* C26: from the type code 103 the read needs the protocol version 1 and
\* returns a codec error for another version; it then reads the flags, the
\* type id, the hash code and a declared length L, takes the L - 16 bytes
\* that follow as the body and leaves the buffer right after the body, where
\* the next value begins.
C26_BinaryObjectDecode ==
    /\ (job.kind = "value" /\ job.codec = "binary/mod.rs" /\ job.val.t = "BinaryObject"
            /\ cst = "read")
          => /\ rd.k = "ok" /\ rd.v.t = "BinaryObject"
             /\ rd.v.v = job.val.v
             /\ rd.rest = job.tail
    /\ (job.kind = "buffer" /\ job.codec = "binary/mod.rs" /\ job.ty = "Value"
            /\ Len(job.buf) >= 2 /\ job.buf[1] = 103 /\ job.buf[2] # PROTO_VER /\ cst = "read")
          => rd.k = "err" /\ rd.err.kind \in {"Serde", "Encoding"}


\* C27: a read that meets an unknown type code, or a buffer with fewer bytes
\* than the value's layout needs, a declared length larger than what remains
\* among them, returns a codec error and does not abort; at an unknown type
\* code it has consumed nothing.
C27_DecoderFailure ==
    (job.kind = "buffer" /\ job.codec = "binary/mod.rs" /\ cst = "read")
        => /\ rd.k \in {"ok", "err"}
           /\ rd.k = "err" => rd.err.kind \in {"Serde", "Encoding"}
           /\ (job.ty = "Value" /\ job.buf # <<>>
                    /\ job.buf[1] \notin (1..10) \cup (12..21) \cup {24, 25, 33, 34, 103, NULL_FLAG})
                 => rd.k = "err" /\ rd.rest = job.buf
           /\ job.buf \in {<<>>, <<3, 1>>, <<9, 5, 0, 0, 0, 99>>} => rd.k = "err"

\* The property codes of the specification's table, each with the field of
\* CacheConfiguration it names.
PropertyTable ==
    << <<0, "name">>, <<1, "mode">>, <<2, "atomicity_mode">>, <<3, "backups">>,
       <<4, "write_synchronization_mode">>, <<5, "copy_on_read">>, <<6, "read_from_backup">>,
       <<100, "data_region_name">>, <<101, "on_heap_cache_enabled">>, <<200, "query_entities">>,
       <<201, "query_parallelism">>, <<202, "query_detail_metrics_size">>, <<203, "sql_schema">>,
       <<204, "sql_index_inline_max_size">>, <<205, "sql_escape_all">>,
       <<206, "max_query_iterators">>, <<300, "rebalance_mode">>, <<301, "rebalance_delay">>,
       <<302, "rebalance_timeout">>, <<303, "rebalance_batch_size">>,
       <<304, "rebalance_batch_prefetch_count">>, <<305, "rebalance_order">>,
       <<306, "rebalance_throttle">>, <<400, "group_name">>, <<401, "cache_key_configurations">>,
       <<402, "default_lock_timeout">>, <<403, "max_concurrent_async_operations">>,
       <<404, "partition_loss_policy">>, <<405, "eager_ttl">>, <<406, "statistics_enabled">> >>

\* The value of a field of a configuration as its type writes it.
FieldBytes(field, config) ==
    LET p == CHOOSE i \in 1..Len(Properties) : Properties[i][2] = field
    IN  IgniteWrite_as(Properties[p][3], config[field]).bytes

\* The entries of a written configuration, walked from its seventh byte: at
\* each entry the code must be one of the table that no earlier entry had, and
\* the bytes after it the value of the field the table gives the code.
WalkProperties(bytes, count, config) ==
    LET failed == [ok |-> FALSE, pos |-> 0, seen |-> {}]
        walk[i \in 0..count] ==
            IF i = 0 THEN [ok |-> TRUE, pos |-> 7, seen |-> {}]
            ELSE LET w == walk[i - 1]
                 IN  IF ~w.ok \/ w.pos + 1 > Len(bytes) THEN failed
                     ELSE LET code == get_i16_le(SubSeq(bytes, w.pos, w.pos + 1))
                              rows == {r \in 1..Len(PropertyTable) : PropertyTable[r][1] = code}
                          IN  IF rows = {} \/ code \in w.seen THEN failed
                              ELSE LET e == FieldBytes(PropertyTable[CHOOSE r \in rows : TRUE][2],
                                                       config)
                                   IN  [ok |-> SubSeq(bytes, w.pos + 2, w.pos + 1 + Len(e)) = e,
                                        pos |-> w.pos + 2 + Len(e),
                                        seen |-> w.seen \cup {code}]
    IN  walk[count]

\* C28: a written cache configuration starts with an i32 that is 2 plus the
\* bytes of its properties, then an i16 that is the number of entries that
\* follow; each entry is a code of the table and the value of the field the
\* table gives that code; the entries end where the bytes end; no code comes
\* twice and every field of the configuration has its entry.
C28_CacheConfigurationWrite ==
    (job.kind = "config" /\ cst = "configuration" /\ wr.ok) =>
        LET count == get_i16_le(Drop(wr.bytes, 4))
            walk == WalkProperties(wr.bytes, count, job.val)
        IN  /\ get_i32_le(wr.bytes) = 2 + (Len(wr.bytes) - 6)
            /\ count >= 0
            /\ walk.ok
            /\ walk.pos = Len(wr.bytes) + 1
            /\ walk.seen = {PropertyTable[r][1] : r \in 1..Len(PropertyTable)}
            /\ Cardinality(walk.seen) = Cardinality(DOMAIN job.val)

\* A configuration with a query entity and key configurations was written,
\* and bytes follow it in the buffer.
C28_Witness ==
    /\ job.kind = "config" /\ cst = "configuration" /\ wr.ok
    /\ Len(job.val.query_entities) = 1 /\ Len(job.val.cache_key_configurations) = 2
    /\ job.tail # <<>>
    /\ Len(wr.bytes) > 200

\* C29: once an operation on the client has returned a Network error, the
\* next step of the client writes no request frame to the stream and reads no
\* reply frame from it.
C29_BrokenAfterNetworkError ==
    [][(pc = "ready" /\ calls > 0 /\ Kind(result) = "Network")
            => (sent' = sent /\ Len(c2s') <= Len(c2s) /\ recv' = recv)]_vars

\* A call that returns Ok has written one request frame and read one reply
\* frame, and a call that has read a reply frame reads no other: the step
\* that reads a frame in full ends the call.
OneFramePerSend ==
    [][/\ recv' # recv =>
            /\ recv' = recv + 1
            /\ pc \in {"hs_body", "op_body"}
            /\ pc' \notin {"hs_len", "hs_body", "op_len", "op_body"}
       /\ (pc \in {"hs_body", "op_body"} /\ result'.k = "ok") =>
            /\ recv' = recv + 1
            /\ Len(wrote) = 4 + get_i32_le(wrote)]_vars

\* C30: in every state of a connection the reply frames read are no more
\* than the request frames written and at most one fewer; a send that returns
\* Ok has written one request frame and read one reply frame; an execute
\* reads no second frame for its request.
C30_FrameAccounting ==
    /\ [](recv <= sent /\ sent - recv <= 1)
    /\ OneFramePerSend

====
